---- MODULE Spec2Model ----
(***************************************************************************)
(* A model of the FXT trace writer of RichieSams/fxt (write.go,            *)
(* constants.go).  The Writer appends 64-bit little-endian words to a      *)
(* file and interns strings and (process, thread) pairs in two tables.     *)
(*                                                                         *)
(* A uint64 is modelled as the set of its bit positions that are 1, so     *)
(* that shifts, ORs and the truncation at bit 63 are those of the Go       *)
(* expressions; the file is a sequence of bytes.                           *)
(***************************************************************************)
EXTENDS Integers, Sequences, FiniteSets, TLC

VARIABLES
    stream,           \* the bytes of the file, in order
    closed,           \* the file has been closed
    seekable,         \* the file supports Seek
    stringTable,      \* Writer.stringTable: string -> index
    nextStringIndex,  \* Writer.nextStringIndex (uint16)
    threadTable,      \* Writer.threadTable: <<processId, threadId>> -> index
    nextThreadIndex,  \* Writer.nextThreadIndex (uint16)
    call,             \* the last call made: its name and parameters
    ret,              \* what the last call returned
    mark,             \* Len(stream) when the last call started
    nops,             \* number of calls made so far
    hdrs,             \* offsets at which a record header was written
    first,            \* string -> result of the first getOrCreateStringIndex of it
    later,            \* string -> results of the later getOrCreateStringIndex calls of it
    okRun,            \* every call so far was a record-adding call that returned nil
    log               \* the calls made so far, each with the error it returned
                      \* and the number of bytes it appended

vars == <<stream, closed, seekable, stringTable, nextStringIndex, threadTable,
          nextThreadIndex, call, ret, mark, nops, hdrs, first, later, okRun,
          log>>

----------------------------------------------------------------------------
(* Bounds of the model. *)

MaxOps == 2

\* the number of calls of a session of metadata records ended by Close
MaxSessionOps == 4

\* the number of threads that add their first event one after the other
ManyThreads == 255

----------------------------------------------------------------------------
(* Constants of constants.go. *)

fxtMagic == <<16, 0, 4, 70, 120, 84, 22, 0>>

recordTypeMetadata == 0
recordTypeInitialization == 1
recordTypeString == 2
recordTypeThread == 3
recordTypeEvent == 4
recordTypeBlob == 5
recordTypeUserspaceObject == 6
recordTypeKernelObject == 7
recordTypeScheduling == 8

metadataTypeProviderInfo == 1
metadataTypeProviderSection == 2
metadataTypeProviderEvent == 3

argumentTypeNull == 0
argumentTypeInt32 == 1
argumentTypeUInt32 == 2
argumentTypeInt64 == 3
argumentTypeUInt64 == 4
argumentTypeDouble == 5
argumentTypeString == 6
argumentTypePointer == 7
argumentTypeKOID == 8
argumentTypeBool == 9

eventTypeInstant == 0
eventTypeCounter == 1
eventTypeDurationBegin == 2
eventTypeDurationEnd == 3
eventTypeDurationComplete == 4
eventTypeAsyncBegin == 5
eventTypeAsyncInstant == 6
eventTypeAsyncEnd == 7
eventTypeFlowBegin == 8
eventTypeFlowStep == 9
eventTypeFlowEnd == 10

providerEventTypeBufferFilledUp == 0

koidTypeProcess == 1
koidTypeThread == 2

BlobTypeData == 1
BlobTypeLastBranch == 2
BlobTypePerfetto == 3

schedulingRecordTypeContextSwitch == 1
schedulingRecordTypeThreadWakeup == 2

\* math.MaxUint8
MaxUint8 == 255

\* the number of values of a uint16 counter
Uint16Mod == 65536

----------------------------------------------------------------------------
(* 64-bit words. *)

\* uint64(x) for an integer x of any Go integer type: the bits of x, a
\* negative x sign-extended to 64 bits (two's complement).
U64(x) ==
    IF x >= 0
    THEN {i \in 0..30 : (x \div (2^i)) % 2 = 1}
    ELSE (0..63) \ {i \in 0..30 : ((-x - 1) \div (2^i)) % 2 = 1}

\* w << n on a uint64: bits shifted past bit 63 are lost.
Shl(w, n) == {b + n : b \in {c \in w : c + n <= 63}}

\* a | b | ... over a set of words
Or(ws) == UNION ws

\* byte k (0 is the least significant) of a word
ByteOf(w, k) ==
    LET b(i) == IF (8 * k + i) \in w THEN 2^i ELSE 0
    IN  b(0) + b(1) + b(2) + b(3) + b(4) + b(5) + b(6) + b(7)

\* binary.LittleEndian's encoding of a uint64: 8 bytes, least significant first
LittleEndian(w) == [k \in 1..8 |-> ByteOf(w, k - 1)]

\* make([]byte, n): n zero bytes
ZeroBytes(n) == [k \in 1..n |-> 0]

\* a wrong padding: the length itself, never rounded up
PadToNothing(n) == n

\* a wrong padding: up to the next multiple of 8 above n, also when n is one
PadToNext8(n) == n + 8 - (n % 8)

\* (n + 8 - 1) & (-8): n + 7 with its three low bits cleared
PadTo8(n) == (n + 8 - 1) - ((n + 8 - 1) % 8)

(* Reading a stream back: the bits of the word at byte offset `at`. *)

BitAt(bytes, at, b) == (bytes[at + (b \div 8) + 1] \div (2^(b % 8))) % 2

RECURSIVE Field(_, _, _, _)
\* the `width`-bit field starting at bit `lo` of the word at offset `at`
Field(bytes, at, lo, width) ==
    IF width = 0 THEN 0
    ELSE BitAt(bytes, at, lo) + 2 * Field(bytes, at, lo + 1, width - 1)

----------------------------------------------------------------------------
(* The state of a call in progress: the Writer's fields, the file, and the  *)
(* values the call returns.                                                 *)

\* the empty map
EmptyMap == [x \in {} |-> 0]

\* m[k] = v
MapPut(m, k, v) == [x \in (DOMAIN m) \cup {k} |-> IF x = k THEN v ELSE m[x]]

\* What a call starts from: the Writer as the variables hold it.  wleft is the
\* number of writes the file will still accept (-1: every write succeeds),
\* wpart the number of bytes the write that fails has written before it fails,
\* attempts the number of writes the call has issued.
StartFailing(wleft, wpart) ==
    [stream |-> stream, closed |-> closed, seekable |-> seekable,
     wleft |-> wleft, wpart |-> wpart, attempts |-> 0,
     stringTable |-> stringTable, nextStringIndex |-> nextStringIndex,
     threadTable |-> threadTable, nextThreadIndex |-> nextThreadIndex,
     err |-> "", index |-> 0, n |-> 0,
     argumentSizeInWords |-> 0, wordsWritten |-> 0,
     hdrs |-> hdrs, first |-> first, later |-> later]

\* the same on a file of which no write fails short
Start(wleft) == StartFailing(wleft, 0)

\* return fmt.Errorf(...)
Fail(w, e) == [w EXCEPT !.err = e]

\* x := e, then F(x): the value e is computed once
Let(e, F(_)) == CHOOSE r \in {F(x) : x \in {e}} : TRUE

\* x := e; if x.err != nil { return x }; then F(x)
Bind(e, F(_)) == CHOOSE r \in {IF x.err # "" THEN x ELSE F(x) : x \in {e}} : TRUE

\* a file whose offset is back at 0 before each write
fileWriteAtStart(w, p) ==
    IF w.closed \/ w.wleft = 0
    THEN [w EXCEPT !.err = "write failed", !.attempts = @ + 1]
    ELSE [w EXCEPT !.stream = IF Len(p) >= Len(@) THEN p
                              ELSE p \o SubSeq(@, Len(p) + 1, Len(@)),
                   !.attempts = @ + 1,
                   !.wleft = IF @ > 0 THEN @ - 1 ELSE @]

\* a file that still accepts writes after Close
fileWriteAfterClose(w, p) ==
    IF w.wleft = 0
    THEN [w EXCEPT !.err = "write failed", !.attempts = @ + 1]
    ELSE [w EXCEPT !.stream = @ \o p, !.attempts = @ + 1,
                   !.wleft = IF @ > 0 THEN @ - 1 ELSE @]

\* w.file.Write(p): appends p; fails on a closed file, and when the file
\* refuses the write, having written the first wpart bytes of p at most
fileWrite(w, p) ==
    IF w.closed
    THEN [w EXCEPT !.err = "write failed", !.attempts = @ + 1]
    ELSE IF w.wleft = 0
    THEN [w EXCEPT !.err = "write failed", !.attempts = @ + 1,
                   !.stream = @ \o SubSeq(p, 1, IF w.wpart < Len(p) THEN w.wpart ELSE Len(p))]
    ELSE [w EXCEPT !.stream = @ \o p, !.attempts = @ + 1,
                   !.wleft = IF @ > 0 THEN @ - 1 ELSE @]

\* binary.Write(w.file, binary.LittleEndian, v) of a 64-bit value: one Write
\* of its 8 bytes
binaryWrite(w, word) == fileWrite(w, LittleEndian(word))

\* binary.Write of a record header: the same, and its offset is noted
headerWrite(w, word) ==
    Bind(fileWrite(w, LittleEndian(word)), LAMBDA w1 :
    [w1 EXCEPT !.hdrs = Append(@, Len(w.stream))])

\* Close(): w.file.Close(), which fails when the file is already closed
Close(w) ==
    IF w.closed THEN Fail(w, "file already closed")
    ELSE [w EXCEPT !.closed = TRUE]

----------------------------------------------------------------------------
(* Metadata and initialization records. *)

\* AddProviderInfoRecord with a fault: the provider name takes an index of
\* the string table
AddProviderInfoRecordNameInTable(w, providerId, providerName) ==
    LET nameBytes == providerName
        nameLen == Len(nameBytes)
        paddedNameLen == PadTo8(nameLen)
        diff == paddedNameLen - nameLen
        sizeInWords == 1 + (paddedNameLen \div 8)
        header == Or({Shl(U64(nameLen), 52), Shl(U64(providerId), 20),
                      Shl(U64(metadataTypeProviderInfo), 16),
                      Shl(U64(sizeInWords), 4), U64(recordTypeMetadata)})
    IN
    IF nameLen > MaxUint8 THEN Fail(w, "provider name is too long") ELSE
    Bind(headerWrite([w EXCEPT !.stringTable = MapPut(@, providerName, w.nextStringIndex),
                               !.nextStringIndex = (@ + 1) % Uint16Mod],
                     header), LAMBDA w1 :
    Bind(fileWrite(w1, nameBytes), LAMBDA w2 :
    Bind(IF diff > 0 THEN fileWrite(w2, ZeroBytes(diff)) ELSE w2, LAMBDA w3 :
    IF w3.closed \/ ~w3.seekable THEN Fail(w3, "seek failed") ELSE w3)))

\* AddProviderInfoRecord(providerId, providerName)
AddProviderInfoRecord(w, providerId, providerName) ==
    LET nameBytes == providerName
        nameLen == Len(nameBytes)
        paddedNameLen == PadTo8(nameLen)
        diff == paddedNameLen - nameLen
        sizeInWords == 1 + (paddedNameLen \div 8)
        header == Or({Shl(U64(nameLen), 52), Shl(U64(providerId), 20),
                      Shl(U64(metadataTypeProviderInfo), 16),
                      Shl(U64(sizeInWords), 4), U64(recordTypeMetadata)})
    IN
    IF nameLen > MaxUint8 THEN Fail(w, "provider name is too long") ELSE
    Bind(headerWrite(w, header), LAMBDA w1 :
    Bind(fileWrite(w1, nameBytes), LAMBDA w2 :
    Bind(IF diff > 0 THEN fileWrite(w2, ZeroBytes(diff)) ELSE w2, LAMBDA w3 :
    \* w.file.Seek(0, io.SeekCurrent), whose error is returned
    IF w3.closed \/ ~w3.seekable THEN Fail(w3, "seek failed") ELSE w3)))

\* AddProviderSectionRecord(providerId)
AddProviderSectionRecord(w, providerId) ==
    LET sizeInWords == 1
        header == Or({Shl(U64(providerId), 20),
                      Shl(U64(metadataTypeProviderSection), 16),
                      Shl(U64(sizeInWords), 4), U64(recordTypeMetadata)})
    IN  headerWrite(w, header)

\* AddProviderEventRecord(providerId, eventType)
AddProviderEventRecord(w, providerId, eventType) ==
    LET sizeInWords == 1
        header == Or({Shl(U64(eventType), 52), Shl(U64(providerId), 20),
                      Shl(U64(metadataTypeProviderEvent), 16),
                      Shl(U64(sizeInWords), 4), U64(recordTypeMetadata)})
    IN  headerWrite(w, header)

\* AddInitializationRecord(numTicksPerSecond)
AddInitializationRecord(w, numTicksPerSecond) ==
    LET sizeInWords == 2
        header == Or({Shl(U64(sizeInWords), 4), U64(recordTypeInitialization)})
    IN
    Bind(headerWrite(w, header), LAMBDA w1 :
    binaryWrite(w1, U64(numTicksPerSecond)))

----------------------------------------------------------------------------
(* The string table and the thread table. *)

\* addStringRecord with a fault: the errors of its writes are dropped and
\* the next write is issued all the same
addStringRecordKeepsWriting(w, stringIndex, str) ==
    LET strBytes == str
        strLen == Len(strBytes)
        paddedStrLen == PadTo8(strLen)
        diff == paddedStrLen - strLen
        sizeInWords == 1 + (paddedStrLen \div 8)
        header == Or({Shl(U64(strLen), 32), Shl(U64(stringIndex), 16),
                      Shl(U64(sizeInWords), 4), U64(recordTypeString)})
    IN
    IF strLen > MaxUint8 THEN Fail(w, "string is too long") ELSE
    Let(fileWrite(w, LittleEndian(header)), LAMBDA w1 :
    Let(fileWrite(w1, strBytes), LAMBDA w2 :
    IF diff > 0 THEN fileWrite(w2, ZeroBytes(diff)) ELSE w2))

\* addStringRecord(stringIndex, str)
addStringRecord(w, stringIndex, str) ==
    LET strBytes == str
        strLen == Len(strBytes)
        paddedStrLen == PadTo8(strLen)
        diff == paddedStrLen - strLen
        sizeInWords == 1 + (paddedStrLen \div 8)
        header == Or({Shl(U64(strLen), 32), Shl(U64(stringIndex), 16),
                      Shl(U64(sizeInWords), 4), U64(recordTypeString)})
    IN
    IF strLen > MaxUint8 THEN Fail(w, "string is too long") ELSE
    Bind(headerWrite(w, header), LAMBDA w1 :
    Bind(fileWrite(w1, strBytes), LAMBDA w2 :
    IF diff > 0 THEN fileWrite(w2, ZeroBytes(diff)) ELSE w2))

\* addThreadRecord(threadIndex, processId, threadId)
addThreadRecord(w, threadIndex, processId, threadId) ==
    LET sizeInWords == 3
        header == Or({Shl(U64(threadIndex), 16), Shl(U64(sizeInWords), 4),
                      U64(recordTypeThread)})
    IN
    Bind(headerWrite(w, header), LAMBDA w1 :
    Bind(binaryWrite(w1, U64(processId)), LAMBDA w2 :
    binaryWrite(w2, U64(threadId))))

\* getStringIndex with a fault: a string that is not in the table is reported
\* as index 0 without an error
getStringIndexNoError(w, str) ==
    IF str \notin DOMAIN w.stringTable
    THEN [w EXCEPT !.index = 0]
    ELSE [w EXCEPT !.index = w.stringTable[str]]

\* getStringIndex(str): (index, nil), or (0, error) when str is not in the table
getStringIndex(w, str) ==
    IF str \notin DOMAIN w.stringTable
    THEN [w EXCEPT !.err = "does not exist in the string table", !.index = 0]
    ELSE [w EXCEPT !.index = w.stringTable[str]]

\* What a getOrCreateStringIndex(str) that started from w0 and ended in w
\* returned.  Of the first call with str: the index, the error, the stream
\* lengths before and after it, and nth (str is the nth distinct string
\* passed).  Of every later call with str: the index, the error and the
\* number of bytes it appended.
NoteIntern(w0, w, str) ==
    LET res == [index |-> w.index, err |-> w.err,
                from |-> Len(w0.stream), to |-> Len(w.stream),
                nth |-> Cardinality(DOMAIN w0.first) + 1]
        again == [index |-> w.index, err |-> w.err,
                  bytes |-> Len(w.stream) - Len(w0.stream)]
    IN  IF str \in DOMAIN w0.first
        THEN [w EXCEPT !.later = MapPut(@, str, @[str] \cup {again})]
        ELSE [w EXCEPT !.first = MapPut(@, str, res),
                       !.later = MapPut(@, str, {})]

\* (index, nil), or (0, err) when w.err is set
ReturnIndex(w, index) == [w EXCEPT !.index = IF w.err # "" THEN 0 ELSE index]

\* getOrCreateStringIndex with a fault: the table is not consulted, every
\* call takes a new index and writes a String Record
getOrCreateStringIndexNoLookup(w, str) ==
    LET index == w.nextStringIndex IN
    Let(Let(addStringRecord(
                [w EXCEPT !.nextStringIndex = (@ + 1) % Uint16Mod,
                          !.stringTable = MapPut(@, str, index)],
                index, str), LAMBDA w2 :
        ReturnIndex(w2, index)), LAMBDA w3 :
    NoteIntern(w, w3, str))

\* getOrCreateStringIndex(str)
getOrCreateStringIndex(w, str) ==
    Let(IF str \in DOMAIN w.stringTable
        THEN ReturnIndex(w, w.stringTable[str])
        ELSE LET index == w.nextStringIndex IN
             Let(addStringRecord(
                     [w EXCEPT !.nextStringIndex = (@ + 1) % Uint16Mod,
                               !.stringTable = MapPut(@, str, index)],
                     index, str), LAMBDA w2 :
             ReturnIndex(w2, index)), LAMBDA w3 :
    NoteIntern(w, w3, str))

\* the same, returning the thread id where the index is due
getOrCreateThreadIndexAsThreadId(w, processId, threadId) ==
    LET thread == <<processId, threadId>> IN
    IF thread \in DOMAIN w.threadTable
    THEN ReturnIndex(w, threadId)
    ELSE LET threadIndex == w.nextThreadIndex IN
         Let(addThreadRecord(
                 [w EXCEPT !.nextThreadIndex = (@ + 1) % Uint16Mod,
                           !.threadTable = MapPut(@, thread, threadIndex)],
                 threadIndex, processId, threadId), LAMBDA w2 :
         ReturnIndex(w2, threadId))

\* getOrCreateThreadIndex(processId, threadId)
getOrCreateThreadIndex(w, processId, threadId) ==
    LET thread == <<processId, threadId>> IN
    IF thread \in DOMAIN w.threadTable
    THEN ReturnIndex(w, w.threadTable[thread])
    ELSE LET threadIndex == w.nextThreadIndex IN
         Let(addThreadRecord(
                 [w EXCEPT !.nextThreadIndex = (@ + 1) % Uint16Mod,
                           !.threadTable = MapPut(@, thread, threadIndex)],
                 threadIndex, processId, threadId), LAMBDA w2 :
         ReturnIndex(w2, threadIndex))

----------------------------------------------------------------------------
(* Kernel object records. *)

\* the Go string literal "process"
processStr == <<112, 114, 111, 99, 101, 115, 115>>

\* SetProcessName(processId, name)
SetProcessName(w, processId, name) ==
    Bind(getOrCreateStringIndex(w, name), LAMBDA w1 :
    LET nameIndex == w1.index
        sizeInWords == 1 + 1
        numArgs == 0
        header == Or({Shl(U64(numArgs), 40), Shl(U64(nameIndex), 24),
                      Shl(U64(koidTypeProcess), 16), Shl(U64(sizeInWords), 4),
                      U64(recordTypeKernelObject)})
    IN
    Bind(headerWrite(w1, header), LAMBDA w2 :
    binaryWrite(w2, U64(processId))))

\* SetThreadName with a fault: "process" is interned after the record's
\* header and thread id have been written
SetThreadNameLateIntern(w, processId, threadId, name) ==
    Bind(getOrCreateStringIndex(w, name), LAMBDA w1 :
    LET nameIndex == w1.index
        argumentSizeInWords == 2
        sizeInWords == 1 + 1 + argumentSizeInWords
        numArgs == 1
        header == Or({Shl(U64(numArgs), 40), Shl(U64(nameIndex), 24),
                      Shl(U64(koidTypeThread), 16), Shl(U64(sizeInWords), 4),
                      U64(recordTypeKernelObject)})
    IN
    Bind(headerWrite(w1, header), LAMBDA w3 :
    Bind(binaryWrite(w3, U64(threadId)), LAMBDA w4 :
    Bind(getOrCreateStringIndex(w4, processStr), LAMBDA w2 :
    LET processIndex == w2.index
        argHeader == Or({Shl(U64(processIndex), 16),
                         Shl(U64(argumentSizeInWords), 4),
                         U64(argumentTypeKOID)})
    IN
    Bind(binaryWrite(w2, argHeader), LAMBDA w5 :
    binaryWrite(w5, U64(processId)))))))

\* SetThreadName(processId, threadId, name)
SetThreadName(w, processId, threadId, name) ==
    Bind(getOrCreateStringIndex(w, name), LAMBDA w1 :
    Bind(getOrCreateStringIndex(w1, processStr), LAMBDA w2 :
    LET nameIndex == w1.index
        processIndex == w2.index
        argumentSizeInWords == 2
        sizeInWords == 1 + 1 + argumentSizeInWords
        numArgs == 1
        header == Or({Shl(U64(numArgs), 40), Shl(U64(nameIndex), 24),
                      Shl(U64(koidTypeThread), 16), Shl(U64(sizeInWords), 4),
                      U64(recordTypeKernelObject)})
        argHeader == Or({Shl(U64(processIndex), 16),
                         Shl(U64(argumentSizeInWords), 4),
                         U64(argumentTypeKOID)})
    IN
    Bind(headerWrite(w2, header), LAMBDA w3 :
    Bind(binaryWrite(w3, U64(threadId)), LAMBDA w4 :
    Bind(binaryWrite(w4, argHeader), LAMBDA w5 :
    binaryWrite(w5, U64(processId)))))))

----------------------------------------------------------------------------
(* Arguments.  A value of Go's interface{} is a record: t is its dynamic     *)
(* type ("nil" for the nil interface), n its value when it is an integer or  *)
(* a bool (0 or 1), s its bytes when it is a string, f the bits of            *)
(* math.Float64bits when it is a float64.                                     *)

Value(t, n, s, f) == [t |-> t, n |-> n, s |-> s, f |-> f]

\* getArgumentSizeInWords with a fault: a uintptr is sized as one word
getArgumentSizeInWordsShort(value) ==
    IF value.t = "nil" THEN [n |-> 1, err |-> ""]
    ELSE CASE value.t \in {"int32", "uint32", "string", "bool", "uintptr"} ->
                [n |-> 1, err |-> ""]
           [] value.t \in {"int64", "uint64", "float64", "KernelObjectID"} ->
                [n |-> 2, err |-> ""]
           [] OTHER -> [n |-> 0, err |-> "invalid value type for argument"]

\* getArgumentSizeInWords with a fault: a value of any other kind is sized as
\* two words and no error is returned
getArgumentSizeInWordsTakesAny(value) ==
    IF value.t = "nil" THEN [n |-> 1, err |-> ""]
    ELSE CASE value.t \in {"int32", "uint32", "string", "bool"} ->
                [n |-> 1, err |-> ""]
           [] OTHER -> [n |-> 2, err |-> ""]

\* getArgumentSizeInWords(value): [n, err]
getArgumentSizeInWords(value) ==
    IF value.t = "nil" THEN [n |-> 1, err |-> ""]
    ELSE CASE value.t = "int32" -> [n |-> 1, err |-> ""]
           [] value.t = "uint32" -> [n |-> 1, err |-> ""]
           [] value.t = "int64" -> [n |-> 2, err |-> ""]
           [] value.t = "uint64" -> [n |-> 2, err |-> ""]
           [] value.t = "float64" -> [n |-> 2, err |-> ""]
           [] value.t = "string" -> [n |-> 1, err |-> ""]
           [] value.t = "uintptr" -> [n |-> 2, err |-> ""]
           [] value.t = "KernelObjectID" -> [n |-> 2, err |-> ""]
           [] value.t = "bool" -> [n |-> 1, err |-> ""]
           [] OTHER -> [n |-> 0, err |-> "invalid value type for argument"]

\* the same, interning the key and never the value
addArgumentStringsToTableKeyOnly(w, key, value) ==
    getOrCreateStringIndex(w, key)

\* addArgumentStringsToTable(key, value)
addArgumentStringsToTable(w, key, value) ==
    Bind(getOrCreateStringIndex(w, key), LAMBDA w1 :
    IF value.t = "string" THEN getOrCreateStringIndex(w1, value.s) ELSE w1)

\* (sizeInWords, nil), or (0, err) when w.err is set
ReturnWords(w, sizeInWords) == [w EXCEPT !.n = IF w.err # "" THEN 0 ELSE sizeInWords]

\* an argument made of its header word alone
ArgHeaderOnly(w, header) ==
    Let(binaryWrite(w, header), LAMBDA w1 : ReturnWords(w1, 1))

\* an argument made of its header word and one data word
ArgHeaderAndWord(w, header, word) ==
    Let(Bind(binaryWrite(w, header), LAMBDA w1 : binaryWrite(w1, word)),
        LAMBDA w2 : ReturnWords(w2, 2))

\* the header of an argument of 2 words: name index, size, type
ArgHeader2(keyIndex, type) ==
    Or({Shl(U64(keyIndex), 16), Shl(U64(2), 4), U64(type)})

\* the header of an argument of 1 word, its value in the upper half
ArgHeader1(v, keyIndex, type) ==
    Or({Shl(v, 32), Shl(U64(keyIndex), 16), Shl(U64(1), 4), U64(type)})

\* writeArgument(key, value): w.n is numWordsWritten
writeArgument(w, key, value) ==
    Let(getStringIndex(w, key), LAMBDA w0 :
    IF w0.err # "" THEN ReturnWords(w0, 0) ELSE
    LET keyIndex == w0.index IN
    IF value.t = "nil"
    THEN ArgHeaderOnly(w0, Or({Shl(U64(keyIndex), 16), Shl(U64(1), 4),
                               U64(argumentTypeNull)}))
    ELSE CASE value.t = "int32" ->
                ArgHeaderOnly(w0, ArgHeader1(U64(value.n), keyIndex, argumentTypeInt32))
           [] value.t = "uint32" ->
                ArgHeaderOnly(w0, ArgHeader1(U64(value.n), keyIndex, argumentTypeUInt32))
           [] value.t = "int64" ->
                ArgHeaderAndWord(w0, ArgHeader2(keyIndex, argumentTypeInt64), U64(value.n))
           [] value.t = "uint64" ->
                ArgHeaderAndWord(w0, ArgHeader2(keyIndex, argumentTypeUInt64), U64(value.n))
           [] value.t = "float64" ->
                ArgHeaderAndWord(w0, ArgHeader2(keyIndex, argumentTypeDouble), value.f)
           [] value.t = "string" ->
                Let(getStringIndex(w0, value.s), LAMBDA w1 :
                IF w1.err # "" THEN ReturnWords(w1, 0)
                ELSE ArgHeaderOnly(w1, ArgHeader1(U64(w1.index), keyIndex,
                                                  argumentTypeString)))
           [] value.t = "uintptr" ->
                ArgHeaderAndWord(w0, ArgHeader2(keyIndex, argumentTypePointer), U64(value.n))
           [] value.t = "KernelObjectID" ->
                ArgHeaderAndWord(w0, ArgHeader2(keyIndex, argumentTypeKOID), U64(value.n))
           [] value.t = "bool" ->
                LET valueBit == IF value.n # 0 THEN 1 ELSE 0 IN
                ArgHeaderOnly(w0, ArgHeader1(U64(valueBit), keyIndex, argumentTypeBool))
           [] OTHER ->
                [w0 EXCEPT !.err = "invalid value type for argument", !.n = 0])

(* `for key, value := range arguments` visits the keys of the map in an order *)
(* Go leaves unspecified and varies from one loop to the next: each loop is   *)
(* given the order it visits the keys in, a sequence holding every key once.  *)

RECURSIVE sizeLoop(_, _, _, _)
\* the first loop: add up the argument sizes and intern the argument strings
sizeLoop(w, arguments, order, i) ==
    IF i > Len(order) THEN w ELSE
    LET key == order[i]
        value == arguments[key]
        size == getArgumentSizeInWords(value)
    IN
    IF size.err # "" THEN Fail(w, size.err) ELSE
    Bind(addArgumentStringsToTable(
             [w EXCEPT !.argumentSizeInWords = @ + size.n], key, value), LAMBDA w2 :
    sizeLoop(w2, arguments, order, i + 1))

RECURSIVE writeLoop(_, _, _, _)
\* the second loop: write each argument and add up the words written
writeLoop(w, arguments, order, i) ==
    IF i > Len(order) THEN w ELSE
    Bind(writeArgument(w, order[i], arguments[order[i]]), LAMBDA w1 :
    Let([w1 EXCEPT !.wordsWritten = @ + w1.n], LAMBDA w2 :
    writeLoop(w2, arguments, order, i + 1)))

\* "Expected to write %d words of argument data, but actually wrote %d"
MismatchError == "Expected to write N words of argument data, but actually wrote M"

\* the check that follows the second loop
checkWordsWritten(w) ==
    IF w.wordsWritten # w.argumentSizeInWords
    THEN Fail(w, MismatchError)
    ELSE w

----------------------------------------------------------------------------
(* Event records. *)

\* writeEventHeaderAndGenericData(eventType, category, name, processId,
\* threadId, timestamp, arguments, extraSizeInWords); order1 and order2 are
\* the orders in which its two loops visit the arguments
writeEventHeaderAndGenericData(w, eventType, category, name, processId, threadId, timestamp, arguments, order1, order2, extraSizeInWords) ==
    Bind(getOrCreateStringIndex(w, category), LAMBDA w1 :
    Bind(getOrCreateStringIndex(w1, name), LAMBDA w2 :
    Bind(getOrCreateThreadIndex(w2, processId, threadId), LAMBDA w3 :
    Bind(sizeLoop(w3, arguments, order1, 1), LAMBDA w4 :
    LET categoryIndex == w1.index
        nameIndex == w2.index
        threadIndex == w3.index
        sizeInWords == 1 + 1 + w4.argumentSizeInWords + extraSizeInWords
        numArgs == Cardinality(DOMAIN arguments)
        header == Or({Shl(U64(nameIndex), 48), Shl(U64(categoryIndex), 32),
                      Shl(U64(threadIndex), 24), Shl(U64(numArgs), 20),
                      Shl(U64(eventType), 16), Shl(U64(sizeInWords), 4),
                      U64(recordTypeEvent)})
    IN
    Bind(headerWrite(w4, header), LAMBDA w5 :
    Bind(binaryWrite(w5, U64(timestamp)), LAMBDA w6 :
    Bind(writeLoop(w6, arguments, order2, 1), LAMBDA w7 :
    checkWordsWritten(w7))))))))

\* an event whose record ends with its arguments (extraSizeInWords is 0)
EventPlain(w, eventType, category, name, processId, threadId, timestamp, arguments, order1, order2) ==
    writeEventHeaderAndGenericData(w, eventType, category, name, processId,
        threadId, timestamp, arguments, order1, order2, 0)

\* the same with the trailing word left out of the declared size
EventWithTrailerNotCounted(w, eventType, category, name, processId, threadId, timestamp, arguments, order1, order2, trailer) ==
    Bind(writeEventHeaderAndGenericData(w, eventType, category, name,
             processId, threadId, timestamp, arguments, order1, order2, 0),
         LAMBDA w1 : binaryWrite(w1, U64(trailer)))

\* an event whose record ends with one more word (extraSizeInWords is 1)
EventWithTrailer(w, eventType, category, name, processId, threadId, timestamp, arguments, order1, order2, trailer) ==
    Bind(writeEventHeaderAndGenericData(w, eventType, category, name,
             processId, threadId, timestamp, arguments, order1, order2, 1),
         LAMBDA w1 : binaryWrite(w1, U64(trailer)))

AddInstantEventWithArgs(w, category, name, processId, threadId, timestamp, arguments, order1, order2) ==
    EventPlain(w, eventTypeInstant, category, name, processId, threadId,
               timestamp, arguments, order1, order2)

\* AddInstantEvent: AddInstantEventWithArgs with an empty map
AddInstantEvent(w, category, name, processId, threadId, timestamp) ==
    AddInstantEventWithArgs(w, category, name, processId, threadId, timestamp,
                            EmptyMap, <<>>, <<>>)

AddCounterEvent(w, category, name, processId, threadId, timestamp, arguments, order1, order2, counterId) ==
    EventWithTrailer(w, eventTypeCounter, category, name, processId, threadId,
                     timestamp, arguments, order1, order2, counterId)

AddDurationBeginEventWithArgs(w, category, name, processId, threadId, timestamp, arguments, order1, order2) ==
    EventPlain(w, eventTypeDurationBegin, category, name, processId, threadId,
               timestamp, arguments, order1, order2)

AddDurationEndEventWithArgs(w, category, name, processId, threadId, timestamp, arguments, order1, order2) ==
    EventPlain(w, eventTypeDurationEnd, category, name, processId, threadId,
               timestamp, arguments, order1, order2)

AddDurationCompleteEventWithArgs(w, category, name, processId, threadId, beginTimestamp, endTimestamp, arguments, order1, order2) ==
    EventWithTrailer(w, eventTypeDurationComplete, category, name, processId,
                     threadId, beginTimestamp, arguments, order1, order2,
                     endTimestamp)

AddAsyncBeginEventWithArgs(w, category, name, processId, threadId, timestamp, asyncCorrelationId, arguments, order1, order2) ==
    EventWithTrailer(w, eventTypeAsyncBegin, category, name, processId, threadId,
                     timestamp, arguments, order1, order2, asyncCorrelationId)

AddAsyncInstantEventWithArgs(w, category, name, processId, threadId, timestamp, asyncCorrelationId, arguments, order1, order2) ==
    EventWithTrailer(w, eventTypeAsyncInstant, category, name, processId, threadId,
                     timestamp, arguments, order1, order2, asyncCorrelationId)

AddAsyncEndEventWithArgs(w, category, name, processId, threadId, timestamp, asyncCorrelationId, arguments, order1, order2) ==
    EventWithTrailer(w, eventTypeAsyncEnd, category, name, processId, threadId,
                     timestamp, arguments, order1, order2, asyncCorrelationId)

AddFlowBeginEventWithArgs(w, category, name, processId, threadId, timestamp, flowCorrelationId, arguments, order1, order2) ==
    EventWithTrailer(w, eventTypeFlowBegin, category, name, processId, threadId,
                     timestamp, arguments, order1, order2, flowCorrelationId)

AddFlowStepEventWithArgs(w, category, name, processId, threadId, timestamp, flowCorrelationId, arguments, order1, order2) ==
    EventWithTrailer(w, eventTypeFlowStep, category, name, processId, threadId,
                     timestamp, arguments, order1, order2, flowCorrelationId)

AddFlowEndEventWithArgs(w, category, name, processId, threadId, timestamp, flowCorrelationId, arguments, order1, order2) ==
    EventWithTrailer(w, eventTypeFlowEnd, category, name, processId, threadId,
                     timestamp, arguments, order1, order2, flowCorrelationId)

----------------------------------------------------------------------------
(* Blob, userspace object and scheduling records. *)

\* AddBlobRecord(name, data, blobType)
AddBlobRecord(w, name, data, blobType) ==
    Bind(getOrCreateStringIndex(w, name), LAMBDA w1 :
    LET nameIndex == w1.index
        blobSize == Len(data)
        paddedSize == PadTo8(blobSize)
        diff == paddedSize - blobSize
        sizeInWords == 1 + (paddedSize \div 8)
        header == Or({Shl(U64(blobType), 48), Shl(U64(blobSize), 32),
                      Shl(U64(nameIndex), 16), Shl(U64(sizeInWords), 4),
                      U64(recordTypeBlob)})
    IN
    Bind(headerWrite(w1, header), LAMBDA w2 :
    Bind(fileWrite(w2, data), LAMBDA w3 :
    IF diff > 0 THEN fileWrite(w3, ZeroBytes(diff)) ELSE w3)))

\* AddUserspaceObjectRecord(name, processId, pointerValue, arguments)
AddUserspaceObjectRecord(w, name, processId, pointerValue, arguments, order1, order2) ==
    Bind(getOrCreateStringIndex(w, name), LAMBDA w1 :
    Bind(sizeLoop(w1, arguments, order1, 1), LAMBDA w2 :
    LET nameIndex == w1.index
        sizeInWords == 1 + 1 + 1 + w2.argumentSizeInWords
        threadIndex == 0
        numArgs == Cardinality(DOMAIN arguments)
        header == Or({Shl(U64(numArgs), 40), Shl(U64(nameIndex), 24),
                      Shl(U64(threadIndex), 16), Shl(U64(sizeInWords), 4),
                      U64(recordTypeUserspaceObject)})
    IN
    Bind(headerWrite(w2, header), LAMBDA w3 :
    Bind(binaryWrite(w3, U64(pointerValue)), LAMBDA w4 :
    Bind(binaryWrite(w4, U64(processId)), LAMBDA w5 :
    Bind(writeLoop(w5, arguments, order2, 1), LAMBDA w6 :
    checkWordsWritten(w6)))))))

\* the same with the state checked after the sizes of the arguments are summed
AddContextSwitchRecordWithArgsLateCheck(w, cpuNumber, outgoingThreadState, outgoingThreadId, incomingThreadId, timestamp, arguments, order1, order2) ==
    Bind(sizeLoop(w, arguments, order1, 1), LAMBDA w1 :
    IF outgoingThreadState > 15 THEN Fail(w1, "invalid outgoingThreadState") ELSE
    LET sizeInWords == 1 + 1 + 1 + 1 + w1.argumentSizeInWords
        numArgs == Cardinality(DOMAIN arguments)
        header == Or({Shl(U64(schedulingRecordTypeContextSwitch), 60),
                      Shl(U64(outgoingThreadState), 36), Shl(U64(cpuNumber), 20),
                      Shl(U64(numArgs), 16), Shl(U64(sizeInWords), 4),
                      U64(recordTypeScheduling)})
    IN
    Bind(headerWrite(w1, header), LAMBDA w2 :
    Bind(binaryWrite(w2, U64(timestamp)), LAMBDA w3 :
    Bind(binaryWrite(w3, U64(outgoingThreadId)), LAMBDA w4 :
    Bind(binaryWrite(w4, U64(incomingThreadId)), LAMBDA w5 :
    Bind(writeLoop(w5, arguments, order2, 1), LAMBDA w6 :
    checkWordsWritten(w6)))))))

\* AddContextSwitchRecordWithArgs(cpuNumber, outgoingThreadState,
\* outgoingThreadId, incomingThreadId, timestamp, arguments)
AddContextSwitchRecordWithArgs(w, cpuNumber, outgoingThreadState, outgoingThreadId, incomingThreadId, timestamp, arguments, order1, order2) ==
    IF outgoingThreadState > 15 THEN Fail(w, "invalid outgoingThreadState") ELSE
    Bind(sizeLoop(w, arguments, order1, 1), LAMBDA w1 :
    LET sizeInWords == 1 + 1 + 1 + 1 + w1.argumentSizeInWords
        numArgs == Cardinality(DOMAIN arguments)
        header == Or({Shl(U64(schedulingRecordTypeContextSwitch), 60),
                      Shl(U64(outgoingThreadState), 36), Shl(U64(cpuNumber), 20),
                      Shl(U64(numArgs), 16), Shl(U64(sizeInWords), 4),
                      U64(recordTypeScheduling)})
    IN
    Bind(headerWrite(w1, header), LAMBDA w2 :
    Bind(binaryWrite(w2, U64(timestamp)), LAMBDA w3 :
    Bind(binaryWrite(w3, U64(outgoingThreadId)), LAMBDA w4 :
    Bind(binaryWrite(w4, U64(incomingThreadId)), LAMBDA w5 :
    Bind(writeLoop(w5, arguments, order2, 1), LAMBDA w6 :
    checkWordsWritten(w6)))))))

\* AddThreadWakeupRecordWithArgs(cpuNumber, wakingThreadId, timestamp, arguments)
AddThreadWakeupRecordWithArgs(w, cpuNumber, wakingThreadId, timestamp, arguments, order1, order2) ==
    Bind(sizeLoop(w, arguments, order1, 1), LAMBDA w1 :
    LET sizeInWords == 1 + 1 + 1 + w1.argumentSizeInWords
        numArgs == Cardinality(DOMAIN arguments)
        header == Or({Shl(U64(schedulingRecordTypeThreadWakeup), 60),
                      Shl(U64(cpuNumber), 20), Shl(U64(numArgs), 16),
                      Shl(U64(sizeInWords), 4), U64(recordTypeScheduling)})
    IN
    Bind(headerWrite(w1, header), LAMBDA w2 :
    Bind(binaryWrite(w2, U64(timestamp)), LAMBDA w3 :
    Bind(binaryWrite(w3, U64(wakingThreadId)), LAMBDA w4 :
    Bind(writeLoop(w4, arguments, order2, 1), LAMBDA w5 :
    checkWordsWritten(w5))))))

----------------------------------------------------------------------------
(* The inputs the calls are made with. *)

\* "a"
strA == <<97>>
\* "Main"
strMain == <<77, 97, 105, 110>>
\* "Foo"
strFoo == <<70, 111, 111>>
\* "abcdefgh": 8 bytes, a whole word
str8 == <<97, 98, 99, 100, 101, 102, 103, 104>>
\* 256 bytes, one more than a length field of 8 bits holds
strLong == [i \in 1..(MaxUint8 + 1) |-> 120]
\* "Test Provider"
strProvider == <<84, 101, 115, 116, 32, 80, 114, 111, 118, 105, 100, 101, 114>>
\* "k" and "j", argument names
argK == <<107>>
argJ == <<106>>

\* math.Float64bits(1.0) = 0x3FF0000000000000
Float64One == 52..61

\* every order in which a loop can visit the keys of a map
Orders(arguments) ==
    LET keys == DOMAIN arguments
        n == Cardinality(keys)
    IN  {o \in [1..n -> keys] : \A i, j \in 1..n : i # j => o[i] # o[j]}

\* one argument of every supported kind
SupportedValues ==
    {Value("nil", 0, <<>>, {}), Value("int32", -1, <<>>, {}),
     Value("uint32", 984, <<>>, {}), Value("int64", 851, <<>>, {}),
     Value("uint64", 35, <<>>, {}), Value("float64", 0, <<>>, Float64One),
     Value("string", 0, strA, {}), Value("uintptr", 67890, <<>>, {}),
     Value("KernelObjectID", 3, <<>>, {}), Value("bool", 1, <<>>, {})}

\* values of kinds the writer does not take: int, float32, uint8
UnsupportedValues ==
    {Value("int", 7, <<>>, {}), Value("float32", 0, <<>>, {}),
     Value("uint8", 200, <<>>, {})}

\* the values getArgumentSizeInWords is applied to: every kind the writer
\* takes and kinds it does not take, the kinds that hold a number with
\* several magnitudes
SizeValues ==
    SupportedValues \cup UnsupportedValues
    \cup {Value(t, n, <<>>, {}) : t \in {"int32", "int64", "int"},
                                  n \in {-2147483647, -1, 0, 1, 255, 65536, 2147483647}}
    \cup {Value(t, n, <<>>, {}) : t \in {"uint32", "uint64", "uintptr", "KernelObjectID", "uint"},
                                  n \in {0, 1, 255, 65536, 2147483647}}
    \cup {Value("bool", 0, <<>>, {}), Value("float64", 0, <<>>, {}),
          Value("float64", 0, <<>>, 0..63), Value("string", 0, <<>>, {}),
          Value("string", 0, strLong, {})}

\* the map {"k": 851 (int64), "j": "a"}
TwoArguments == (argK :> Value("int64", 851, <<>>, {})) @@ (argJ :> Value("string", 0, strA, {}))

\* argument maps: the empty map, one argument of every supported kind, a
\* string of 256 bytes, a value of a kind the writer does not take, two
\* arguments
ArgumentMaps ==
    {EmptyMap, TwoArguments}
    \cup {argK :> v : v \in SupportedValues}
    \cup {argK :> Value("string", 0, strLong, {}), argK :> Value("int", 7, <<>>, {})}

\* a few of them
FewArgumentMaps ==
    {EmptyMap, TwoArguments, argK :> Value("string", 0, strA, {}),
     argK :> Value("string", 0, strLong, {})}

\* the data of a blob of n bytes
BlobData(n) == [i \in 1..n |-> 7]

\* blob sizes: empty, not a multiple of 8, a whole word, "testing123", the
\* largest whose record is 4095 words, and 8 bytes more
BlobSizes == {0, 3, 8, 10, 32752, 32760}

----------------------------------------------------------------------------
(* The calls.  Each action is one call on the Writer: it runs the operation  *)
(* from the Writer's state and stores the state it leaves and what it        *)
(* returned.                                                                 *)

\* the named calls that add a record to the file
RecordOps ==
    {"AddProviderInfoRecord", "AddProviderSectionRecord", "AddProviderEventRecord",
     "AddInitializationRecord", "SetProcessName", "SetThreadName",
     "AddInstantEvent", "AddInstantEventWithArgs", "AddCounterEvent",
     "AddDurationBeginEventWithArgs", "AddDurationEndEventWithArgs",
     "AddDurationCompleteEventWithArgs", "AddAsyncBeginEventWithArgs",
     "AddAsyncInstantEventWithArgs", "AddAsyncEndEventWithArgs",
     "AddFlowBeginEventWithArgs", "AddFlowStepEventWithArgs",
     "AddFlowEndEventWithArgs", "AddBlobRecord", "AddUserspaceObjectRecord",
     "AddContextSwitchRecordWithArgs", "AddThreadWakeupRecordWithArgs"}

\* the call c ended in w
Return(w, c) ==
    /\ stream' = w.stream
    /\ closed' = w.closed
    /\ seekable' = w.seekable
    /\ stringTable' = w.stringTable
    /\ nextStringIndex' = w.nextStringIndex
    /\ threadTable' = w.threadTable
    /\ nextThreadIndex' = w.nextThreadIndex
    /\ hdrs' = w.hdrs
    /\ first' = w.first
    /\ later' = w.later
    /\ call' = c
    /\ ret' = [err |-> w.err, index |-> w.index, n |-> w.n,
               argumentSizeInWords |-> w.argumentSizeInWords,
               wordsWritten |-> w.wordsWritten, attempts |-> w.attempts]
    /\ mark' = Len(stream)
    /\ nops' = nops + 1
    /\ okRun' = (okRun /\ c.op \in RecordOps /\ w.err = "")
    /\ log' = Append(log, [call |-> c, err |-> w.err,
                            appended |-> Len(w.stream) - Len(stream)])

\* the call c ran the operation to its end, the state e
Done(e, c) == \E w \in {e} : Return(w, c)

\* NewWriter: the file holds the magic number, the tables are empty and the
\* counters are at 1
NewWriter ==
    /\ stream = fxtMagic
    /\ closed = FALSE
    /\ seekable = TRUE
    /\ stringTable = EmptyMap
    /\ nextStringIndex = 1
    /\ threadTable = EmptyMap
    /\ nextThreadIndex = 1
    /\ hdrs = <<>>
    /\ first = EmptyMap
    /\ later = EmptyMap
    /\ ret = [err |-> "", index |-> 0, n |-> 0, argumentSizeInWords |-> 0,
              wordsWritten |-> 0, attempts |-> 0]
    /\ mark = 0
    /\ nops = 0
    /\ okRun = TRUE
    /\ log = <<>>

Init ==
    /\ NewWriter
    /\ call = [op |-> "NewWriter"]

GetStringIndexCall ==
    /\ nops < MaxOps
    /\ \E s \in {strA, strFoo, strLong} :
        Done(getStringIndex(Start(-1), s), [op |-> "getStringIndex", str |-> s])

GetOrCreateStringIndexCall ==
    /\ nops < MaxOps
    /\ \E s \in {strA, strFoo, str8, strLong} :
        Done(getOrCreateStringIndex(Start(-1), s), [op |-> "getOrCreateStringIndex", str |-> s])

AddProviderInfoRecordCall ==
    /\ nops < MaxOps
    /\ \E name \in {strProvider, strLong} :
        Done(AddProviderInfoRecord(Start(-1), 1234, name), [op |-> "AddProviderInfoRecord", providerId |-> 1234,
                providerName |-> name])

SetProcessNameCall ==
    /\ nops < MaxOps
    /\ \E name \in {strA, strLong} :
        Done(SetProcessName(Start(-1), 3, name), [op |-> "SetProcessName", processId |-> 3, name |-> name])

SetThreadNameCall ==
    /\ nops < MaxOps
    /\ \E tid \in {45, 87}, name \in {strA, processStr, strLong} :
        Done(SetThreadName(Start(-1), 3, tid, name), [op |-> "SetThreadName", processId |-> 3, threadId |-> tid,
                name |-> name])

AddInstantEventCall ==
    /\ nops < MaxOps
    /\ \E category \in {strFoo, strLong}, name \in {strA, str8, strLong},
       tid \in {45, 87}, timestamp \in {200, 300} :
        Done(AddInstantEvent(Start(-1), category, name, 3, tid, timestamp), [op |-> "AddInstantEvent", category |-> category, name |-> name,
                processId |-> 3, threadId |-> tid, timestamp |-> timestamp])

Next ==
    \/ GetStringIndexCall
    \/ GetOrCreateStringIndexCall
    \/ AddProviderInfoRecordCall
    \/ SetProcessNameCall
    \/ SetThreadNameCall
    \/ AddInstantEventCall

Spec == Init /\ [][Next]_vars

----------------------------------------------------------------------------
(* The calls that take arguments. *)

AddInstantEventWithArgsCall ==
    /\ nops < MaxOps
    /\ \E arguments \in ArgumentMaps :
       \E order1 \in Orders(arguments), order2 \in Orders(arguments) :
           Done(AddInstantEventWithArgs(Start(-1), strFoo, strA, 3, 45, 200, arguments, order1, order2), [op |-> "AddInstantEventWithArgs", category |-> strFoo, name |-> strA, processId |-> 3, threadId |-> 45, timestamp |-> 200, arguments |-> arguments, order1 |-> order1, order2 |-> order2])

SetThreadNameMainCall ==
    /\ nops < MaxOps
    /\ Done(SetThreadName(Start(-1), 3, 45, strMain), [op |-> "SetThreadName", processId |-> 3, threadId |-> 45, name |-> strMain])

AddCounterEventCall ==
    /\ nops < MaxOps
    /\ \E arguments \in FewArgumentMaps :
       \E order1 \in Orders(arguments), order2 \in Orders(arguments) :
           Done(AddCounterEvent(Start(-1), strFoo, strA, 3, 45, 250, arguments, order1, order2, 555), [op |-> "AddCounterEvent", category |-> strFoo, name |-> strA, processId |-> 3, threadId |-> 45, timestamp |-> 250, arguments |-> arguments, order1 |-> order1, order2 |-> order2, counterId |-> 555])

AddUserspaceObjectRecordCall ==
    /\ nops < MaxOps
    /\ \E arguments \in FewArgumentMaps :
       \E order1 \in Orders(arguments), order2 \in Orders(arguments) :
           Done(AddUserspaceObjectRecord(Start(-1), str8, 3, 67890, arguments, order1, order2), [op |-> "AddUserspaceObjectRecord", name |-> str8, processId |-> 3, pointerValue |-> 67890, arguments |-> arguments, order1 |-> order1, order2 |-> order2])

AddContextSwitchRecordWithArgsCall ==
    /\ nops < MaxOps
    /\ \E arguments \in FewArgumentMaps, outgoingThreadState \in {15, 16} :
       \E order1 \in Orders(arguments), order2 \in Orders(arguments) :
           Done(AddContextSwitchRecordWithArgs(Start(-1), 3, outgoingThreadState, 45, 87, 250, arguments, order1, order2), [op |-> "AddContextSwitchRecordWithArgs", cpuNumber |-> 3, outgoingThreadState |-> outgoingThreadState, outgoingThreadId |-> 45, incomingThreadId |-> 87, timestamp |-> 250, arguments |-> arguments, order1 |-> order1, order2 |-> order2])

AddThreadWakeupRecordWithArgsCall ==
    /\ nops < MaxOps
    /\ \E arguments \in FewArgumentMaps :
       \E order1 \in Orders(arguments), order2 \in Orders(arguments) :
           Done(AddThreadWakeupRecordWithArgs(Start(-1), 3, 45, 925, arguments, order1, order2), [op |-> "AddThreadWakeupRecordWithArgs", cpuNumber |-> 3, wakingThreadId |-> 45, timestamp |-> 925, arguments |-> arguments, order1 |-> order1, order2 |-> order2])

NextArgs ==
    \/ SetThreadNameMainCall
    \/ AddInstantEventWithArgsCall
    \/ AddCounterEventCall
    \/ AddUserspaceObjectRecordCall
    \/ AddContextSwitchRecordWithArgsCall
    \/ AddThreadWakeupRecordWithArgsCall

SpecArgs == Init /\ [][NextArgs]_vars

----------------------------------------------------------------------------
(* Blobs. *)

AddBlobRecordCall ==
    /\ nops < MaxOps
    /\ \E name \in {strA, strFoo}, size \in BlobSizes, blobType \in {BlobTypeData, BlobTypeLastBranch, BlobTypePerfetto} :
           Done(AddBlobRecord(Start(-1), name, BlobData(size), blobType), [op |-> "AddBlobRecord", name |-> name, blobSize |-> size, blobType |-> blobType])

NextBlob == AddBlobRecordCall

SpecBlob == Init /\ [][NextBlob]_vars

----------------------------------------------------------------------------
(* getArgumentSizeInWords on its own: the value is drawn first, then sized.  *)

InitSize ==
    /\ NewWriter
    /\ call \in {[op |-> "value", value |-> v] : v \in SizeValues}

GetArgumentSizeInWordsCall ==
    /\ call.op = "value"
    /\ \E size \in {getArgumentSizeInWords(call.value)} :
           /\ call' = [op |-> "getArgumentSizeInWords", value |-> call.value]
           /\ ret' = [ret EXCEPT !.err = size.err, !.n = size.n]
    /\ mark' = Len(stream)
    /\ nops' = nops + 1
    /\ okRun' = FALSE
    /\ UNCHANGED <<stream, closed, seekable, stringTable, nextStringIndex, threadTable, nextThreadIndex, hdrs, first, later, log>>

NextSize == GetArgumentSizeInWordsCall

SpecSize == InitSize /\ [][NextSize]_vars

----------------------------------------------------------------------------
(* A session: provider and initialization records, a process name, Close.   *)
(* The file NewWriter created is a regular file, or a path that os.Create   *)
(* opens without creating it (a named pipe, a device), which cannot seek.   *)

InitSession ==
    /\ stream = fxtMagic
    /\ closed = FALSE
    /\ seekable \in BOOLEAN
    /\ stringTable = EmptyMap
    /\ nextStringIndex = 1
    /\ threadTable = EmptyMap
    /\ nextThreadIndex = 1
    /\ hdrs = <<>>
    /\ first = EmptyMap
    /\ later = EmptyMap
    /\ ret = [err |-> "", index |-> 0, n |-> 0, argumentSizeInWords |-> 0,
              wordsWritten |-> 0, attempts |-> 0]
    /\ mark = 0
    /\ nops = 0
    /\ okRun = TRUE
    /\ log = <<>>
    /\ call = [op |-> "NewWriter"]

AddProviderInfoRecordSessionCall ==
    /\ nops < MaxSessionOps
    /\ \E name \in {strProvider, strLong} :
           Done(AddProviderInfoRecord(Start(-1), 1234, name), [op |-> "AddProviderInfoRecord", providerId |-> 1234, providerName |-> name])

AddProviderSectionRecordSessionCall ==
    /\ nops < MaxSessionOps
    /\ Done(AddProviderSectionRecord(Start(-1), 1234), [op |-> "AddProviderSectionRecord", providerId |-> 1234])

AddInitializationRecordSessionCall ==
    /\ nops < MaxSessionOps
    /\ Done(AddInitializationRecord(Start(-1), 1000), [op |-> "AddInitializationRecord", numTicksPerSecond |-> 1000])

SetProcessNameSessionCall ==
    /\ nops < MaxSessionOps
    /\ \E name \in {strA, strLong} :
           Done(SetProcessName(Start(-1), 3, name), [op |-> "SetProcessName", processId |-> 3, name |-> name])

AddInstantEventSessionCall ==
    /\ nops < MaxSessionOps
    /\ Done(AddInstantEvent(Start(-1), strFoo, strA, 3, 45, 200), [op |-> "AddInstantEvent", category |-> strFoo, name |-> strA,
                processId |-> 3, threadId |-> 45, timestamp |-> 200])

CloseSessionCall ==
    /\ nops < MaxSessionOps
    /\ Done(Close(Start(-1)), [op |-> "Close"])

NextSession ==
    \/ AddProviderInfoRecordSessionCall
    \/ AddProviderSectionRecordSessionCall
    \/ AddInitializationRecordSessionCall
    \/ SetProcessNameSessionCall
    \/ AddInstantEventSessionCall
    \/ CloseSessionCall

SpecSession == InitSession /\ [][NextSession]_vars

----------------------------------------------------------------------------
(* A program of many threads.  Each of the threads (3, 1) to                 *)
(* (3, ManyThreads) adds its first event, one after the other; then events   *)
(* are added for some of these threads and for new ones.                     *)

AddInstantEventNextThreadCall ==
    /\ nops < ManyThreads
    /\ \E tid \in {nops + 1} :
        Done(AddInstantEvent(Start(-1), strFoo, strA, 3, tid, 100), [op |-> "AddInstantEvent", category |-> strFoo, name |-> strA,
                processId |-> 3, threadId |-> tid, timestamp |-> 100])

AddInstantEventThreadsCall ==
    /\ nops >= ManyThreads
    /\ nops < ManyThreads + MaxOps
    /\ \E name \in {strA, str8}, tid \in {1, ManyThreads, ManyThreads + 1, ManyThreads + 2},
          timestamp \in {200, 300} :
        Done(AddInstantEvent(Start(-1), strFoo, name, 3, tid, timestamp), [op |-> "AddInstantEvent", category |-> strFoo, name |-> name,
                processId |-> 3, threadId |-> tid, timestamp |-> timestamp])

NextThreads ==
    \/ AddInstantEventNextThreadCall
    \/ AddInstantEventThreadsCall

SpecThreads == Init /\ [][NextThreads]_vars

----------------------------------------------------------------------------
(* The string counter through all its values.  Call k is                     *)
(* AddInstantEventWithArgs with a category, a name, MaxArguments argument    *)
(* names and as many string values, all of them strings never used before,   *)
(* on a thread never used before: each call takes StringsPerCall new string  *)
(* indices and one new thread index.  The tables only grow and an entry      *)
(* never changes, and no call looks up a string or a thread of an earlier    *)
(* call, so of the tables, the stream and the notes only what the last call  *)
(* added is kept: an entry with index 0 is in the tables of the Writer from  *)
(* the call that adds it on, and here after that call.                       *)

\* the most arguments the 4 bits of numArgs in a header can count
MaxArguments == 15

\* the strings one call interns: category, name, argument names and values
StringsPerCall == 2 + 2 * MaxArguments

\* the j-th string: three bytes, different for every j
Name(j) == <<(j - 1) \div 65536, ((j - 1) \div 256) % 256, (j - 1) % 256>>

\* the j of Name(j)
NameNumber(s) == s[1] * 65536 + s[2] * 256 + s[3] + 1

\* the argument names of call k, in the order both loops visit them: every
\* second string after the category and the name
NewKeys(k) == [i \in 1..MaxArguments |-> Name(StringsPerCall * (k - 1) + 2 * i + 1)]

\* the arguments of call k: the value of a name is the string after it
NewArguments(k) ==
    [key \in {NewKeys(k)[i] : i \in 1..MaxArguments} |->
        Value("string", 0, Name(NameNumber(key) + 1), {})]

\* the Writer as the next call finds it, less what earlier calls added to the
\* stream and to the tables
LessEarlierCalls ==
    [stream |-> fxtMagic, closed |-> closed, seekable |-> seekable,
     wleft |-> -1, wpart |-> 0, attempts |-> 0,
     stringTable |-> EmptyMap, nextStringIndex |-> nextStringIndex,
     threadTable |-> EmptyMap, nextThreadIndex |-> nextThreadIndex,
     err |-> "", index |-> 0, n |-> 0,
     argumentSizeInWords |-> 0, wordsWritten |-> 0,
     hdrs |-> <<>>, first |-> EmptyMap, later |-> EmptyMap]

AddInstantEventNewStringsCall ==
    /\ nops < Uint16Mod \div StringsPerCall
    /\ \E k \in {nops + 1} :
       \E c \in {[op |-> "AddInstantEventWithArgs",
                  category |-> Name(StringsPerCall * (k - 1) + 1),
                  name |-> Name(StringsPerCall * (k - 1) + 2),
                  processId |-> 3, threadId |-> k, timestamp |-> 100,
                  arguments |-> NewArguments(k),
                  order1 |-> NewKeys(k), order2 |-> NewKeys(k)]} :
       \E w \in {AddInstantEventWithArgs(LessEarlierCalls, c.category, c.name, c.processId, c.threadId, c.timestamp, c.arguments, c.order1, c.order2)} :
           /\ stream' = w.stream
           /\ closed' = w.closed
           /\ seekable' = w.seekable
           /\ stringTable' = w.stringTable
           /\ nextStringIndex' = w.nextStringIndex
           /\ threadTable' = w.threadTable
           /\ nextThreadIndex' = w.nextThreadIndex
           /\ hdrs' = w.hdrs
           /\ first' = w.first
           /\ later' = w.later
           /\ call' = c
           /\ ret' = [err |-> w.err, index |-> w.index, n |-> w.n,
                      argumentSizeInWords |-> w.argumentSizeInWords,
                      wordsWritten |-> w.wordsWritten, attempts |-> w.attempts]
           /\ mark' = Len(fxtMagic)
           /\ nops' = nops + 1
           /\ okRun' = (okRun /\ w.err = "")
           /\ log' = <<[call |-> c, err |-> w.err,
                        appended |-> Len(w.stream) - Len(fxtMagic)]>>

NextIndices == AddInstantEventNewStringsCall

SpecIndices == Init /\ [][NextIndices]_vars

----------------------------------------------------------------------------
(* The event records, one call for each kind of event. *)

\* the argument maps of the events: none, and two arguments of 2 words and of
\* 1 word
EventArgumentMaps == {EmptyMap, TwoArguments}

\* the value of the word that ends the record: a counter id, an end
\* timestamp, a correlation id
TrailerValue == 555

AddInstantEventWithArgsEventCall ==
    /\ nops < MaxOps
    /\ \E arguments \in EventArgumentMaps :
       \E order1 \in Orders(arguments), order2 \in Orders(arguments) :
           Done(AddInstantEventWithArgs(Start(-1), strFoo, strA, 3, 45, 200, arguments, order1, order2), [op |-> "AddInstantEventWithArgs", category |-> strFoo, name |-> strA, processId |-> 3, threadId |-> 45, timestamp |-> 200, arguments |-> arguments, order1 |-> order1, order2 |-> order2])

AddCounterEventEventCall ==
    /\ nops < MaxOps
    /\ \E arguments \in EventArgumentMaps :
       \E order1 \in Orders(arguments), order2 \in Orders(arguments) :
           Done(AddCounterEvent(Start(-1), strFoo, strA, 3, 45, 200, arguments, order1, order2, TrailerValue), [op |-> "AddCounterEvent", category |-> strFoo, name |-> strA, processId |-> 3, threadId |-> 45, timestamp |-> 200, arguments |-> arguments, order1 |-> order1, order2 |-> order2, counterId |-> TrailerValue])

AddDurationBeginEventWithArgsCall ==
    /\ nops < MaxOps
    /\ \E arguments \in EventArgumentMaps :
       \E order1 \in Orders(arguments), order2 \in Orders(arguments) :
           Done(AddDurationBeginEventWithArgs(Start(-1), strFoo, strA, 3, 45, 200, arguments, order1, order2), [op |-> "AddDurationBeginEventWithArgs", category |-> strFoo, name |-> strA, processId |-> 3, threadId |-> 45, timestamp |-> 200, arguments |-> arguments, order1 |-> order1, order2 |-> order2])

AddDurationEndEventWithArgsCall ==
    /\ nops < MaxOps
    /\ \E arguments \in EventArgumentMaps :
       \E order1 \in Orders(arguments), order2 \in Orders(arguments) :
           Done(AddDurationEndEventWithArgs(Start(-1), strFoo, strA, 3, 45, 200, arguments, order1, order2), [op |-> "AddDurationEndEventWithArgs", category |-> strFoo, name |-> strA, processId |-> 3, threadId |-> 45, timestamp |-> 200, arguments |-> arguments, order1 |-> order1, order2 |-> order2])

AddDurationCompleteEventWithArgsCall ==
    /\ nops < MaxOps
    /\ \E arguments \in EventArgumentMaps :
       \E order1 \in Orders(arguments), order2 \in Orders(arguments) :
           Done(AddDurationCompleteEventWithArgs(Start(-1), strFoo, strA, 3, 45, 200, TrailerValue, arguments, order1, order2), [op |-> "AddDurationCompleteEventWithArgs", category |-> strFoo, name |-> strA, processId |-> 3, threadId |-> 45, beginTimestamp |-> 200, endTimestamp |-> TrailerValue, arguments |-> arguments, order1 |-> order1, order2 |-> order2])

AddAsyncBeginEventWithArgsCall ==
    /\ nops < MaxOps
    /\ \E arguments \in EventArgumentMaps :
       \E order1 \in Orders(arguments), order2 \in Orders(arguments) :
           Done(AddAsyncBeginEventWithArgs(Start(-1), strFoo, strA, 3, 45, 200, TrailerValue, arguments, order1, order2), [op |-> "AddAsyncBeginEventWithArgs", category |-> strFoo, name |-> strA, processId |-> 3, threadId |-> 45, timestamp |-> 200, asyncCorrelationId |-> TrailerValue, arguments |-> arguments, order1 |-> order1, order2 |-> order2])

AddAsyncInstantEventWithArgsCall ==
    /\ nops < MaxOps
    /\ \E arguments \in EventArgumentMaps :
       \E order1 \in Orders(arguments), order2 \in Orders(arguments) :
           Done(AddAsyncInstantEventWithArgs(Start(-1), strFoo, strA, 3, 45, 200, TrailerValue, arguments, order1, order2), [op |-> "AddAsyncInstantEventWithArgs", category |-> strFoo, name |-> strA, processId |-> 3, threadId |-> 45, timestamp |-> 200, asyncCorrelationId |-> TrailerValue, arguments |-> arguments, order1 |-> order1, order2 |-> order2])

AddAsyncEndEventWithArgsCall ==
    /\ nops < MaxOps
    /\ \E arguments \in EventArgumentMaps :
       \E order1 \in Orders(arguments), order2 \in Orders(arguments) :
           Done(AddAsyncEndEventWithArgs(Start(-1), strFoo, strA, 3, 45, 200, TrailerValue, arguments, order1, order2), [op |-> "AddAsyncEndEventWithArgs", category |-> strFoo, name |-> strA, processId |-> 3, threadId |-> 45, timestamp |-> 200, asyncCorrelationId |-> TrailerValue, arguments |-> arguments, order1 |-> order1, order2 |-> order2])

AddFlowBeginEventWithArgsCall ==
    /\ nops < MaxOps
    /\ \E arguments \in EventArgumentMaps :
       \E order1 \in Orders(arguments), order2 \in Orders(arguments) :
           Done(AddFlowBeginEventWithArgs(Start(-1), strFoo, strA, 3, 45, 200, TrailerValue, arguments, order1, order2), [op |-> "AddFlowBeginEventWithArgs", category |-> strFoo, name |-> strA, processId |-> 3, threadId |-> 45, timestamp |-> 200, flowCorrelationId |-> TrailerValue, arguments |-> arguments, order1 |-> order1, order2 |-> order2])

AddFlowStepEventWithArgsCall ==
    /\ nops < MaxOps
    /\ \E arguments \in EventArgumentMaps :
       \E order1 \in Orders(arguments), order2 \in Orders(arguments) :
           Done(AddFlowStepEventWithArgs(Start(-1), strFoo, strA, 3, 45, 200, TrailerValue, arguments, order1, order2), [op |-> "AddFlowStepEventWithArgs", category |-> strFoo, name |-> strA, processId |-> 3, threadId |-> 45, timestamp |-> 200, flowCorrelationId |-> TrailerValue, arguments |-> arguments, order1 |-> order1, order2 |-> order2])

AddFlowEndEventWithArgsCall ==
    /\ nops < MaxOps
    /\ \E arguments \in EventArgumentMaps :
       \E order1 \in Orders(arguments), order2 \in Orders(arguments) :
           Done(AddFlowEndEventWithArgs(Start(-1), strFoo, strA, 3, 45, 200, TrailerValue, arguments, order1, order2), [op |-> "AddFlowEndEventWithArgs", category |-> strFoo, name |-> strA, processId |-> 3, threadId |-> 45, timestamp |-> 200, flowCorrelationId |-> TrailerValue, arguments |-> arguments, order1 |-> order1, order2 |-> order2])

NextEvents ==
    \/ AddInstantEventWithArgsEventCall
    \/ AddCounterEventEventCall
    \/ AddDurationBeginEventWithArgsCall
    \/ AddDurationEndEventWithArgsCall
    \/ AddDurationCompleteEventWithArgsCall
    \/ AddAsyncBeginEventWithArgsCall
    \/ AddAsyncInstantEventWithArgsCall
    \/ AddAsyncEndEventWithArgsCall
    \/ AddFlowBeginEventWithArgsCall
    \/ AddFlowStepEventWithArgsCall
    \/ AddFlowEndEventWithArgsCall

SpecEvents == Init /\ [][NextEvents]_vars

----------------------------------------------------------------------------
(* A file that refuses a write.  Each call is made with the number of writes *)
(* the file accepts before it refuses one (-1: it refuses none); the write   *)
(* it refuses has written none of its bytes, or the first few.               *)

\* the numbers of writes the file accepts during a call that issues n writes
\* at most
Faults(n) == -1..(n - 1)

\* one argument of 2 words
OneArgument == argK :> Value("int64", 851, <<>>, {})

AddProviderInfoRecordFailingCall ==
    /\ nops < MaxOps
    /\ \E wleft \in Faults(3) :
           Done(AddProviderInfoRecord(StartFailing(wleft, 0), 1234, strProvider), [op |-> "AddProviderInfoRecord", providerId |-> 1234, providerName |-> strProvider, wleft |-> wleft, wpart |-> 0])

SetProcessNameFailingCall ==
    /\ nops < MaxOps
    /\ \E wleft \in Faults(5) :
           Done(SetProcessName(StartFailing(wleft, 0), 3, strA), [op |-> "SetProcessName", processId |-> 3, name |-> strA, wleft |-> wleft, wpart |-> 0])

AddInstantEventWithArgsFailingCall ==
    /\ nops < MaxOps
    /\ \E wleft \in Faults(16) :
           Done(AddInstantEventWithArgs(StartFailing(wleft, 0), strFoo, strA, 3, 45, 200, OneArgument, <<argK>>, <<argK>>), [op |-> "AddInstantEventWithArgs", category |-> strFoo, name |-> strA, processId |-> 3, threadId |-> 45, timestamp |-> 200, arguments |-> OneArgument, order1 |-> <<argK>>, order2 |-> <<argK>>, wleft |-> wleft, wpart |-> 0])

AddBlobRecordFailingCall ==
    /\ nops < MaxOps
    /\ \E wleft \in Faults(6), wpart \in {0, 3} :
           /\ wleft = -1 => wpart = 0
           /\ Done(AddBlobRecord(StartFailing(wleft, wpart), strA, BlobData(10), BlobTypeData), [op |-> "AddBlobRecord", name |-> strA, blobSize |-> 10, blobType |-> BlobTypeData, wleft |-> wleft, wpart |-> wpart])

NextFaults ==
    \/ AddProviderInfoRecordFailingCall
    \/ SetProcessNameFailingCall
    \/ AddInstantEventWithArgsFailingCall
    \/ AddBlobRecordFailingCall

SpecFaults == Init /\ [][NextFaults]_vars

\* what the call c of NextFaults leaves when the file refuses no write
WithoutFailure(c) ==
    CASE c.op = "AddProviderInfoRecord" ->
             AddProviderInfoRecord(Start(-1), c.providerId, c.providerName)
      [] c.op = "SetProcessName" -> SetProcessName(Start(-1), c.processId, c.name)
      [] c.op = "AddInstantEventWithArgs" ->
             AddInstantEventWithArgs(Start(-1), c.category, c.name, c.processId,
                 c.threadId, c.timestamp, c.arguments, c.order1, c.order2)
      [] c.op = "AddBlobRecord" ->
             AddBlobRecord(Start(-1), c.name, BlobData(c.blobSize), c.blobType)

----------------------------------------------------------------------------
(* The metadata and initialization records, on a Writer that has interned    *)
(* strings and a thread, and on a file that can refuse a write.              *)

AddProviderInfoRecordMetadataCall ==
    /\ nops < MaxOps
    /\ \E name \in {strProvider, strLong}, wleft \in Faults(3) :
           Done(AddProviderInfoRecord(StartFailing(wleft, 0), 1234, name), [op |-> "AddProviderInfoRecord", providerId |-> 1234, providerName |-> name, wleft |-> wleft, wpart |-> 0])

AddProviderSectionRecordMetadataCall ==
    /\ nops < MaxOps
    /\ \E wleft \in Faults(1) :
           Done(AddProviderSectionRecord(StartFailing(wleft, 0), 1234), [op |-> "AddProviderSectionRecord", providerId |-> 1234, wleft |-> wleft, wpart |-> 0])

AddProviderEventRecordMetadataCall ==
    /\ nops < MaxOps
    /\ \E wleft \in Faults(1) :
           Done(AddProviderEventRecord(StartFailing(wleft, 0), 1234, providerEventTypeBufferFilledUp), [op |-> "AddProviderEventRecord", providerId |-> 1234, eventType |-> providerEventTypeBufferFilledUp, wleft |-> wleft, wpart |-> 0])

AddInitializationRecordMetadataCall ==
    /\ nops < MaxOps
    /\ \E wleft \in Faults(2) :
           Done(AddInitializationRecord(StartFailing(wleft, 0), 1000), [op |-> "AddInitializationRecord", numTicksPerSecond |-> 1000, wleft |-> wleft, wpart |-> 0])

NextMetadata ==
    \/ AddProviderInfoRecordMetadataCall
    \/ AddProviderSectionRecordMetadataCall
    \/ AddProviderEventRecordMetadataCall
    \/ AddInitializationRecordMetadataCall
    \/ AddInstantEventWithArgsFailingCall

SpecMetadata == Init /\ [][NextMetadata]_vars

----------------------------------------------------------------------------
(* Padding.  A length is drawn first; then a provider name, a string or the  *)
(* data of a blob of that length is written on the new Writer.               *)

\* the lengths: every length a string or a provider name can have, one more,
\* and longer blobs
Lengths == (0..(MaxUint8 + 1)) \cup {1000, 4099}

\* n bytes
Bytes(n) == [i \in 1..n |-> 120]

InitPadding ==
    /\ NewWriter
    /\ call \in {[op |-> "length", n |-> n] : n \in Lengths}

AddProviderInfoRecordLengthCall ==
    /\ call.op = "length"
    /\ Done(AddProviderInfoRecord(Start(-1), 1234, Bytes(call.n)), [op |-> "AddProviderInfoRecord", providerId |-> 1234, n |-> call.n])

GetOrCreateStringIndexLengthCall ==
    /\ call.op = "length"
    /\ Done(getOrCreateStringIndex(Start(-1), Bytes(call.n)), [op |-> "getOrCreateStringIndex", n |-> call.n])

AddBlobRecordLengthCall ==
    /\ call.op = "length"
    /\ Done(AddBlobRecord(Start(-1), strA, Bytes(call.n), BlobTypeData), [op |-> "AddBlobRecord", name |-> strA, n |-> call.n, blobType |-> BlobTypeData])

NextPadding ==
    \/ AddProviderInfoRecordLengthCall
    \/ GetOrCreateStringIndexLengthCall
    \/ AddBlobRecordLengthCall

SpecPadding == InitPadding /\ [][NextPadding]_vars

----------------------------------------------------------------------------
(* The string counter past its last value.  The calls are those of           *)
(* NextIndices, one more of them is made, and of the tables the entries of   *)
(* the first call are kept next to those of the last call: the tables of the *)
(* Writer hold these entries and those of the calls in between, which no     *)
(* call of this sequence looks up.  The stream is left out.                  *)

\* the Writer as the next call finds it, less the stream and less what the
\* calls after the first one added to the tables
FirstCallOnly ==
    [LessEarlierCalls EXCEPT
        !.stringTable = [str \in {x \in DOMAIN stringTable : NameNumber(x) <= StringsPerCall} |-> stringTable[str]],
        !.threadTable = [thread \in {x \in DOMAIN threadTable : x[2] = 1} |-> threadTable[thread]]]

AddInstantEventMoreStringsCall ==
    /\ nops <= Uint16Mod \div StringsPerCall
    /\ \E k \in {nops + 1} :
       \E w \in {AddInstantEventWithArgs(FirstCallOnly, Name(StringsPerCall * (k - 1) + 1), Name(StringsPerCall * (k - 1) + 2), 3, k, 100, NewArguments(k), NewKeys(k), NewKeys(k))} :
           /\ stringTable' = w.stringTable
           /\ nextStringIndex' = w.nextStringIndex
           /\ threadTable' = w.threadTable
           /\ nextThreadIndex' = w.nextThreadIndex
           /\ call' = [op |-> "AddInstantEventWithArgs", processId |-> 3, threadId |-> k, timestamp |-> 100]
           /\ ret' = [err |-> w.err, index |-> w.index, n |-> w.n,
                      argumentSizeInWords |-> w.argumentSizeInWords,
                      wordsWritten |-> w.wordsWritten, attempts |-> w.attempts]
           /\ nops' = nops + 1
           /\ okRun' = (okRun /\ w.err = "")
           /\ UNCHANGED <<stream, closed, seekable, mark, hdrs, first, later, log>>

NextMoreStrings == AddInstantEventMoreStringsCall

SpecMoreStrings == Init /\ [][NextMoreStrings]_vars

----------------------------------------------------------------------------
(* Many arguments.  The maps hold 1, MaxArguments and MaxArguments + 1       *)
(* arguments of one word; of the orders a loop can visit them in, the one    *)
(* by name and its reverse are taken.                                        *)

\* a map of n arguments: the names are Name(1) to Name(n), the values int32
ManyArguments(n) == [key \in {Name(j) : j \in 1..n} |-> Value("int32", NameNumber(key), <<>>, {})]

\* the maps
ManyArgumentMaps == {ManyArguments(n) : n \in {1, MaxArguments, MaxArguments + 1}}

\* the names of the map in order, and in the reverse order
TwoOrders(arguments) ==
    LET n == Cardinality(DOMAIN arguments)
    IN  {[i \in 1..n |-> Name(i)], [i \in 1..n |-> Name(n + 1 - i)]}

AddInstantEventManyArgsCall ==
    /\ nops < MaxOps
    /\ \E arguments \in ManyArgumentMaps :
       \E order1 \in TwoOrders(arguments), order2 \in TwoOrders(arguments) :
           Done(AddInstantEventWithArgs(Start(-1), strFoo, strA, 3, 45, 200, arguments, order1, order2), [op |-> "AddInstantEventWithArgs", category |-> strFoo, name |-> strA, processId |-> 3, threadId |-> 45, timestamp |-> 200, arguments |-> arguments, order1 |-> order1, order2 |-> order2])

AddUserspaceObjectRecordManyArgsCall ==
    /\ nops < MaxOps
    /\ \E arguments \in ManyArgumentMaps :
       \E order1 \in TwoOrders(arguments), order2 \in TwoOrders(arguments) :
           Done(AddUserspaceObjectRecord(Start(-1), str8, 3, 67890, arguments, order1, order2), [op |-> "AddUserspaceObjectRecord", name |-> str8, processId |-> 3, pointerValue |-> 67890, arguments |-> arguments, order1 |-> order1, order2 |-> order2])

AddContextSwitchRecordManyArgsCall ==
    /\ nops < MaxOps
    /\ \E arguments \in ManyArgumentMaps :
       \E order1 \in TwoOrders(arguments), order2 \in TwoOrders(arguments) :
           Done(AddContextSwitchRecordWithArgs(Start(-1), 2, 1, 45, 87, 250, arguments, order1, order2), [op |-> "AddContextSwitchRecordWithArgs", cpuNumber |-> 2, outgoingThreadState |-> 1, outgoingThreadId |-> 45, incomingThreadId |-> 87, timestamp |-> 250, arguments |-> arguments, order1 |-> order1, order2 |-> order2])

AddThreadWakeupRecordManyArgsCall ==
    /\ nops < MaxOps
    /\ \E arguments \in ManyArgumentMaps :
       \E order1 \in TwoOrders(arguments), order2 \in TwoOrders(arguments) :
           Done(AddThreadWakeupRecordWithArgs(Start(-1), 2, 45, 925, arguments, order1, order2), [op |-> "AddThreadWakeupRecordWithArgs", cpuNumber |-> 2, wakingThreadId |-> 45, timestamp |-> 925, arguments |-> arguments, order1 |-> order1, order2 |-> order2])

NextManyArgs ==
    \/ AddInstantEventManyArgsCall
    \/ AddUserspaceObjectRecordManyArgsCall
    \/ AddContextSwitchRecordManyArgsCall
    \/ AddThreadWakeupRecordManyArgsCall

SpecManyArgs == Init /\ [][NextManyArgs]_vars

----------------------------------------------------------------------------
(* Calls given a value of a kind the writer does not take. *)

\* the map {"k": 7 (int)}, the map {"j": "a", "k": float32} whose second
\* value is not taken, and a map whose values are all taken
UnsupportedMaps ==
    {argK :> Value("int", 7, <<>>, {}),
     (argJ :> Value("string", 0, strA, {})) @@ (argK :> Value("float32", 0, <<>>, {})),
     TwoArguments}

AddInstantEventWithArgsUnsupportedCall ==
    /\ nops < MaxOps
    /\ \E arguments \in UnsupportedMaps, tid \in {45} :
       \E order1 \in Orders(arguments), order2 \in Orders(arguments) :
           Done(AddInstantEventWithArgs(Start(-1), strFoo, strA, 3, tid, 200, arguments, order1, order2), [op |-> "AddInstantEventWithArgs", category |-> strFoo, name |-> strA, processId |-> 3, threadId |-> tid, timestamp |-> 200, arguments |-> arguments, order1 |-> order1, order2 |-> order2])

AddCounterEventUnsupportedCall ==
    /\ nops < MaxOps
    /\ \E arguments \in UnsupportedMaps :
       \E order1 \in Orders(arguments), order2 \in Orders(arguments) :
           Done(AddCounterEvent(Start(-1), strFoo, str8, 3, 45, 250, arguments, order1, order2, 555), [op |-> "AddCounterEvent", category |-> strFoo, name |-> str8, processId |-> 3, threadId |-> 45, timestamp |-> 250, arguments |-> arguments, order1 |-> order1, order2 |-> order2, counterId |-> 555])

AddUserspaceObjectRecordUnsupportedCall ==
    /\ nops < MaxOps
    /\ \E arguments \in UnsupportedMaps :
       \E order1 \in Orders(arguments), order2 \in Orders(arguments) :
           Done(AddUserspaceObjectRecord(Start(-1), str8, 3, 67890, arguments, order1, order2), [op |-> "AddUserspaceObjectRecord", name |-> str8, processId |-> 3, pointerValue |-> 67890, arguments |-> arguments, order1 |-> order1, order2 |-> order2])

AddContextSwitchRecordWithArgsUnsupportedCall ==
    /\ nops < MaxOps
    /\ \E arguments \in UnsupportedMaps :
       \E order1 \in Orders(arguments), order2 \in Orders(arguments) :
           Done(AddContextSwitchRecordWithArgs(Start(-1), 3, 1, 45, 87, 250, arguments, order1, order2), [op |-> "AddContextSwitchRecordWithArgs", cpuNumber |-> 3, outgoingThreadState |-> 1, outgoingThreadId |-> 45, incomingThreadId |-> 87, timestamp |-> 250, arguments |-> arguments, order1 |-> order1, order2 |-> order2])

AddThreadWakeupRecordWithArgsUnsupportedCall ==
    /\ nops < MaxOps
    /\ \E arguments \in UnsupportedMaps :
       \E order1 \in Orders(arguments), order2 \in Orders(arguments) :
           Done(AddThreadWakeupRecordWithArgs(Start(-1), 3, 45, 925, arguments, order1, order2), [op |-> "AddThreadWakeupRecordWithArgs", cpuNumber |-> 3, wakingThreadId |-> 45, timestamp |-> 925, arguments |-> arguments, order1 |-> order1, order2 |-> order2])

NextUnsupported ==
    \/ AddInstantEventWithArgsUnsupportedCall
    \/ AddCounterEventUnsupportedCall
    \/ AddUserspaceObjectRecordUnsupportedCall
    \/ AddContextSwitchRecordWithArgsUnsupportedCall
    \/ AddThreadWakeupRecordWithArgsUnsupportedCall

SpecUnsupported == Init /\ [][NextUnsupported]_vars

----------------------------------------------------------------------------
(* Reading the stream back.  The offsets are those of hdrs, the places the   *)
(* Writer wrote a record header at.                                          *)

\* the record type, bits [0:4) of the header at offset `at`
RecordTypeAt(at) == Field(stream, at, 0, 4)

\* the size in words, bits [4:16) of the header at offset `at`
SizeInWordsAt(at) == Field(stream, at, 4, 12)

\* the index a String Record defines: stringIndex << 16
StringRecordIndexAt(at) == Field(stream, at, 16, 16)

\* the length a String Record declares: strLen << 32
StringRecordLenAt(at) == Field(stream, at, 32, 16)

\* the index a Thread Record defines: threadIndex << 16
ThreadRecordIndexAt(at) == Field(stream, at, 16, 8)

\* a String Record or a Thread Record: a record that defines an index
IsDefinitionAt(at) == RecordTypeAt(at) \in {recordTypeString, recordTypeThread}

\* the offsets of the String Records, in stream order
StringRecordOffsets == SelectSeq(hdrs, LAMBDA h : RecordTypeAt(h) = recordTypeString)

\* the offsets of the Thread Records, in stream order
ThreadRecordOffsets == SelectSeq(hdrs, LAMBDA h : RecordTypeAt(h) = recordTypeThread)

\* the offsets of the records that are not definitions, in stream order
RecordOffsets == SelectSeq(hdrs, LAMBDA h : ~IsDefinitionAt(h))

\* the offsets of the headers the last call wrote
LastCallOffsets == SelectSeq(hdrs, LAMBDA h : h >= mark)

\* the string indices the header of the record at `at` refers to
HeaderStringRefsAt(at) ==
    IF RecordTypeAt(at) = recordTypeEvent
    THEN {Field(stream, at, 48, 16), Field(stream, at, 32, 16)}
    ELSE IF RecordTypeAt(at) \in {recordTypeKernelObject, recordTypeUserspaceObject}
    THEN {Field(stream, at, 24, 16)}
    ELSE IF RecordTypeAt(at) = recordTypeBlob
    THEN {Field(stream, at, 16, 16)}
    ELSE {}

\* the offsets of the String Records whose payload is s
StringRecordsOf(s) ==
    {h \in {hdrs[i] : i \in 1..Len(hdrs)} :
        /\ RecordTypeAt(h) = recordTypeString
        /\ StringRecordLenAt(h) = Len(s)
        /\ SubSeq(stream, h + 8 + 1, h + 8 + Len(s)) = s}

\* the offsets of the Thread Records of (processId, threadId): the header,
\* then the process id, then the thread id
ThreadRecordsOf(processId, threadId) ==
    {h \in {hdrs[i] : i \in 1..Len(hdrs)} :
        /\ RecordTypeAt(h) = recordTypeThread
        /\ Field(stream, h + 8, 0, 24) = processId
        /\ Field(stream, h + 16, 0, 24) = threadId}

\* the thread field of an event header: bits [24:32)
EventThreadAt(at) == Field(stream, at, 24, 8)

\* the record type the call `op` adds
RecordTypeOf(op) ==
    IF op \in {"AddProviderInfoRecord", "AddProviderSectionRecord", "AddProviderEventRecord"}
    THEN recordTypeMetadata
    ELSE IF op = "AddInitializationRecord" THEN recordTypeInitialization
    ELSE IF op \in {"SetProcessName", "SetThreadName"} THEN recordTypeKernelObject
    ELSE IF op = "AddBlobRecord" THEN recordTypeBlob
    ELSE IF op = "AddUserspaceObjectRecord" THEN recordTypeUserspaceObject
    ELSE IF op \in {"AddContextSwitchRecordWithArgs", "AddThreadWakeupRecordWithArgs"}
    THEN recordTypeScheduling
    ELSE recordTypeEvent

\* the last call passed a string of more than 255 bytes as a provider name or
\* as a string to be interned
LongStringPassed ==
    \E f \in (DOMAIN call) \cap {"str", "name", "providerName", "category"} :
        Len(call[f]) > MaxUint8

\* the indices getOrCreateStringIndex(s) has returned without error so far
OkIndices(s) ==
    IF s \notin DOMAIN first THEN {}
    ELSE (IF first[s].err = "" THEN {first[s].index} ELSE {})
         \cup {r.index : r \in {x \in later[s] : x.err = ""}}

----------------------------------------------------------------------------
(* The string table and the stream. *)

\* C1: in every reachable state, every index held in the string table has
\* exactly one String Record carrying it in the stream, the String Records
\* appear in increasing index order, and each index a record header refers to
\* has its String Record earlier in the stream.  The Writer does not keep
\* this: getOrCreateStringIndex stores the index in the table before
\* addStringRecord rejects the string.
C1_TableIndexHasOneStringRecord ==
    /\ \A s \in DOMAIN stringTable :
           Cardinality({i \in 1..Len(StringRecordOffsets) :
               StringRecordIndexAt(StringRecordOffsets[i]) = stringTable[s]}) = 1
    /\ \A i, j \in 1..Len(StringRecordOffsets) :
           i < j => StringRecordIndexAt(StringRecordOffsets[i])
                        < StringRecordIndexAt(StringRecordOffsets[j])
    /\ \A i \in 1..Len(RecordOffsets) :
           \A k \in HeaderStringRefsAt(RecordOffsets[i]) :
               \E j \in 1..Len(StringRecordOffsets) :
                   /\ StringRecordOffsets[j] < RecordOffsets[i]
                   /\ StringRecordIndexAt(StringRecordOffsets[j]) = k

\* the first getOrCreateStringIndex(s), whose result is r, appended one
\* String Record and nothing else: the record of index r.index holding s
AppendedOneStringRecord(s, r) ==
    /\ r.from \in {hdrs[i] : i \in 1..Len(hdrs)}
    /\ {hdrs[i] : i \in 1..Len(hdrs)} \cap (r.from..(r.to - 1)) = {r.from}
    /\ RecordTypeAt(r.from) = recordTypeString
    /\ StringRecordIndexAt(r.from) = r.index
    /\ StringRecordLenAt(r.from) = Len(s)
    /\ SubSeq(stream, r.from + 9, r.from + 8 + Len(s)) = s
    /\ r.to = r.from + 8 * SizeInWordsAt(r.from)

\* C2 as stated: for every string s, the first getOrCreateStringIndex(s)
\* appends exactly one String Record and returns an index k, and every later
\* getOrCreateStringIndex(s) returns k and appends zero bytes.
C2_FirstInternAlwaysAppends ==
    \A s \in DOMAIN first :
        /\ first[s].err = ""
        /\ AppendedOneStringRecord(s, first[s])
        /\ \A r \in later[s] :
               r.err = "" /\ r.index = first[s].index /\ r.bytes = 0

\* C2, amended: for every string s, if the first getOrCreateStringIndex(s)
\* returns without error, it has appended exactly one String Record and
\* returned an index k, and every later getOrCreateStringIndex(s) returns k
\* without error and appends zero bytes.
C2_FirstInternThenSameIndex ==
    \A s \in DOMAIN first :
        first[s].err = "" =>
            /\ AppendedOneStringRecord(s, first[s])
            /\ \A r \in later[s] :
                   r.err = "" /\ r.index = first[s].index /\ r.bytes = 0

\* a string was interned without error and then passed again
C2_InternedTwice ==
    \E s \in DOMAIN first : first[s].err = "" /\ later[s] # {}

\* C3: any call that passes a provider name or a string to be interned of
\* more than 255 bytes returns an error and appends zero bytes, on every
\* such call and not only on the first one with that string.  The Writer
\* rejects only the first call: the string stays in the table.
C3_LongStringAlwaysRejected ==
    LongStringPassed => (ret.err # "" /\ Len(stream) = mark)

\* C4: string indices and thread indices are assigned densely from 1 in
\* first-seen order: the n-th String Record of the stream carries index n,
\* the n-th Thread Record carries index n, and each counter has advanced by
\* the number of entries of its own table.  A rejected string takes an index
\* with it, so the String Records do not start at 1.
C4_DenseIndices ==
    /\ \A n \in 1..Len(StringRecordOffsets) :
           StringRecordIndexAt(StringRecordOffsets[n]) = n
    /\ \A n \in 1..Len(ThreadRecordOffsets) :
           ThreadRecordIndexAt(ThreadRecordOffsets[n]) = n
    /\ nextThreadIndex = Cardinality(DOMAIN threadTable) + 1
    /\ nextStringIndex = Cardinality(DOMAIN stringTable) + 1

\* C5: getStringIndex(s) returns an error when getOrCreateStringIndex(s) has
\* not been called on the Writer; after a getOrCreateStringIndex(s) that
\* returned without error it returns, without error, the index that call
\* returned; that index is 1 when s was the first string passed to
\* getOrCreateStringIndex on the Writer.
C5_GetStringIndex ==
    call.op = "getStringIndex" =>
        /\ call.str \notin DOMAIN first => ret.err # ""
        /\ OkIndices(call.str) # {} =>
               /\ ret.err = ""
               /\ OkIndices(call.str) = {ret.index}
               /\ first[call.str].nth = 1 /\ first[call.str].err = "" => ret.index = 1

\* getStringIndex found the first string interned on the Writer
C5_LookupAfterIntern ==
    /\ call.op = "getStringIndex"
    /\ OkIndices(call.str) # {}
    /\ first[call.str].nth = 1
    /\ ret.err = ""
    /\ ret.index = 1

----------------------------------------------------------------------------
(* The order of the records. *)

\* C6: for any sequence of record-adding calls that all returned nil, the
\* records that are not definitions are in the stream in the order of the
\* calls (each call added exactly one, of its own type, at the end of the
\* stream), and the String and Thread Records a call created lie after the
\* previous call's record and before the header of the call's own record,
\* each record starting where the one before it ends.
C6_RecordsInCallOrder ==
    (okRun /\ nops >= 1) =>
        LET seg == LastCallOffsets
            n == Len(seg)
        IN  /\ n >= 1
            /\ seg[1] = mark
            /\ \A i \in 1..(n - 1) :
                   /\ IsDefinitionAt(seg[i])
                   /\ seg[i + 1] = seg[i] + 8 * SizeInWordsAt(seg[i])
            /\ RecordTypeAt(seg[n]) = RecordTypeOf(call.op)
            /\ Len(stream) = seg[n] + 8 * SizeInWordsAt(seg[n])
            /\ Len(RecordOffsets) = nops
            /\ RecordOffsets[nops] = seg[n]

\* a second successful call whose record follows the definitions it created
C6_DefinitionsBeforeRecord ==
    /\ okRun
    /\ nops >= 2
    /\ Len(LastCallOffsets) >= 3
    /\ ~IsDefinitionAt(LastCallOffsets[Len(LastCallOffsets)])

\* C8: when AddInstantEvent has returned nil and is called again with the
\* same category, name, processId, threadId and timestamp, the second call
\* returns nil and appends exactly one event record of 2 words, byte for
\* byte the record the first call ended with, and no String or Thread
\* Record: the tables are as they were.
C8_RepeatedInstantEvent ==
    [][(call.op = "AddInstantEvent" /\ ret.err = "" /\ call' = call /\ nops' = nops + 1) =>
          /\ ret'.err = ""
          /\ Len(stream') = Len(stream) + 16
          /\ SubSeq(stream', 1, Len(stream)) = stream
          /\ SubSeq(stream', Len(stream) + 1, Len(stream) + 16)
                 = SubSeq(stream, Len(stream) - 15, Len(stream))
          /\ hdrs' = Append(hdrs, Len(stream))
          /\ Field(stream', Len(stream), 0, 4) = recordTypeEvent
          /\ Field(stream', Len(stream), 4, 12) = 2
          /\ stringTable' = stringTable
          /\ threadTable' = threadTable]_vars

\* AddInstantEvent appended one event record, the same 16 bytes as the event
\* record before it
C8_SecondIdenticalEvent ==
    /\ call.op = "AddInstantEvent"
    /\ ret.err = ""
    /\ nops >= 2
    /\ Len(stream) = mark + 16
    /\ RecordTypeAt(mark) = recordTypeEvent
    /\ SubSeq(stream, mark + 1, mark + 16) = SubSeq(stream, mark - 15, mark)

----------------------------------------------------------------------------
(* Sizes. *)

\* C7: for every record the Writer wrote in calls that all returned nil, the
\* size in words read back from bits [4:16) of its header, times 8, is the
\* number of bytes of the record: the next record, or the end of the stream,
\* is that many bytes after its header.  AddBlobRecord does not keep this for
\* data of 32760 bytes or more: 4096 words and more do not fit 12 bits.
C7_DeclaredSizeIsBytesWritten ==
    okRun =>
        \A i \in 1..Len(hdrs) :
            8 * SizeInWordsAt(hdrs[i])
                = (IF i < Len(hdrs) THEN hdrs[i + 1] ELSE Len(stream)) - hdrs[i]

\* the calls that take an argument map
ArgumentOps ==
    {"AddInstantEventWithArgs", "AddCounterEvent", "AddUserspaceObjectRecord",
     "AddContextSwitchRecordWithArgs", "AddThreadWakeupRecordWithArgs"}

RECURSIVE SumOfSizes(_, _)
\* the sum of getArgumentSizeInWords over the values of the keys
SumOfSizes(arguments, keys) ==
    IF keys = {} THEN 0
    ELSE LET key == CHOOSE k \in keys : TRUE
         IN  getArgumentSizeInWords(arguments[key]).n
                 + SumOfSizes(arguments, keys \ {key})

\* every value of the map is of a kind the writer takes
AllSupported(arguments) ==
    \A key \in DOMAIN arguments : getArgumentSizeInWords(arguments[key]).err = ""

\* C9: a call with an argument map never returns the "Expected to write N
\* words of argument data" error, and when it returns nil the word counts
\* writeArgument returned add up to the sum of getArgumentSizeInWords over
\* the values of the map, and that many words follow the record's fixed
\* fields.
C9_ArgumentWordsMatch ==
    call.op \in ArgumentOps =>
        /\ ret.err # MismatchError
        /\ ret.err = "" =>
               /\ AllSupported(call.arguments)
               /\ ret.argumentSizeInWords = SumOfSizes(call.arguments, DOMAIN call.arguments)
               /\ ret.wordsWritten = ret.argumentSizeInWords

\* a call with two arguments, of 2 words and of 1 word, returned nil
C9_TwoArgumentsWritten ==
    /\ call.op \in ArgumentOps
    /\ ret.err = ""
    /\ Cardinality(DOMAIN call.arguments) = 2
    /\ ret.wordsWritten = 3

\* C10: getArgumentSizeInWords returns 1 for nil, int32, uint32, string and
\* bool values, 2 for int64, uint64, float64, uintptr and KernelObjectID
\* values, whatever the value is, and an error for a value of any other kind.
C10_ArgumentSizeTable ==
    call.op = "getArgumentSizeInWords" =>
        LET t == call.value.t IN
        /\ t \in {"nil", "int32", "uint32", "string", "bool"}
               => (ret.err = "" /\ ret.n = 1)
        /\ t \in {"int64", "uint64", "float64", "uintptr", "KernelObjectID"}
               => (ret.err = "" /\ ret.n = 2)
        /\ t \notin {"nil", "int32", "uint32", "string", "bool", "int64", "uint64",
                     "float64", "uintptr", "KernelObjectID"}
               => ret.err # ""

\* the largest int64 of the model was sized as 2 words
C10_LargeInt64TwoWords ==
    /\ call.op = "getArgumentSizeInWords"
    /\ call.value.t = "int64"
    /\ call.value.n = 2147483647
    /\ ret.err = ""
    /\ ret.n = 2

----------------------------------------------------------------------------
(* Sessions. *)

\* NewWriter; AddProviderInfoRecord(1234, "Test Provider");
\* AddProviderSectionRecord(1234); AddInitializationRecord(1000); Close
TestWriteCalls ==
    <<[op |-> "AddProviderInfoRecord", providerId |-> 1234, providerName |-> strProvider],
      [op |-> "AddProviderSectionRecord", providerId |-> 1234],
      [op |-> "AddInitializationRecord", numTicksPerSecond |-> 1000],
      [op |-> "Close"]>>

\* the calls made so far are the first calls of TestWrite, on a regular file
RunningTestWrite ==
    /\ seekable
    /\ Len(log) <= Len(TestWriteCalls)
    /\ \A i \in 1..Len(log) : log[i].call = TestWriteCalls[i]

\* C11: on a regular file, NewWriter; AddProviderInfoRecord(1234, "Test
\* Provider"); AddProviderSectionRecord(1234); AddInitializationRecord(1000);
\* Close succeeds at every step and leaves exactly the magic word, a
\* provider-info record of 3 words (name length 13, the 13 name bytes, 3 zero
\* bytes), a provider-section record of 1 word and an initialization record
\* of 2 words (header, 1000), with no String or Thread Record.
C11_TestWriteStream ==
    RunningTestWrite =>
        /\ \A i \in 1..Len(log) : log[i].err = ""
        /\ Len(log) = Len(TestWriteCalls) =>
               /\ Len(stream) = 8 + 24 + 8 + 16
               /\ SubSeq(stream, 1, 8) = fxtMagic
               /\ hdrs = <<8, 32, 40>>
               /\ RecordTypeAt(8) = recordTypeMetadata
               /\ SizeInWordsAt(8) = 3
               /\ Field(stream, 8, 16, 4) = metadataTypeProviderInfo
               /\ Field(stream, 8, 20, 32) = 1234
               /\ Field(stream, 8, 52, 8) = 13
               /\ SubSeq(stream, 17, 29) = strProvider
               /\ SubSeq(stream, 30, 32) = <<0, 0, 0>>
               /\ SubSeq(stream, 33, 40) = <<16, 0, 34, 77, 0, 0, 0, 0>>
               /\ RecordTypeAt(40) = recordTypeInitialization
               /\ SizeInWordsAt(40) = 2
               /\ SubSeq(stream, 41, 48) = <<33, 0, 0, 0, 0, 0, 0, 0>>
               /\ SubSeq(stream, 49, 56) = <<232, 3, 0, 0, 0, 0, 0, 0>>
               /\ StringRecordOffsets = <<>>
               /\ ThreadRecordOffsets = <<>>
               /\ closed

\* the four calls of TestWrite have been made, Close last
C11_TestWriteDone ==
    /\ RunningTestWrite
    /\ Len(log) = Len(TestWriteCalls)
    /\ call.op = "Close"
    /\ ret.err = ""

\* the bytes appended by the first n calls
RECURSIVE SumAppended(_)
SumAppended(n) == IF n = 0 THEN 0 ELSE SumAppended(n - 1) + log[n].appended

\* C15: after a Close that succeeded, every later record-adding call returns
\* an error and appends no bytes, and a later Close returns an error too.
C15_NothingAfterClose ==
    \A i \in 1..Len(log) : \A j \in 1..Len(log) :
        (i < j /\ log[i].call.op = "Close" /\ log[i].err = "") =>
            /\ log[j].call.op \in RecordOps \cup {"Close"}
            /\ log[j].err # ""
            /\ log[j].appended = 0
            /\ Len(stream) = 8 + SumAppended(i)

\* Close, then a record-adding call, then a second Close
C15_CallsAfterClose ==
    /\ Len(log) = 4
    /\ log[1].call.op = "AddProviderSectionRecord" /\ log[1].err = ""
    /\ log[2].call.op = "Close" /\ log[2].err = ""
    /\ log[3].call.op \in RecordOps
    /\ log[4].call.op = "Close"

\* the last call was AddProviderInfoRecord with a name short enough, and each
\* of its writes (header, name, padding) succeeded
ProviderInfoWritten ==
    /\ call.op = "AddProviderInfoRecord"
    /\ Len(call.providerName) <= MaxUint8
    /\ log[Len(log)].appended = 8 + PadTo8(Len(call.providerName))

\* C16: the Writer needs from its sink only ordered appends and close:
\* whenever every write issued by AddProviderInfoRecord succeeds, the call
\* returns no error, even when the sink cannot report its current position.
C16_ProviderInfoNeedsOnlyAppends ==
    ProviderInfoWritten => ret.err = ""

----------------------------------------------------------------------------
(* The magic number record. *)

\* C17: the stream of a Writer starts with the magic number 10 00 04 46 78 54
\* 16 00, written once by NewWriter: no operation changes the first 8 bytes,
\* and no record an operation appends starts with the magic word.
C17_MagicOnceAtStart ==
    /\ Len(stream) >= 8
    /\ SubSeq(stream, 1, 8) = <<16, 0, 4, 70, 120, 84, 22, 0>>
    /\ \A i \in 1..Len(hdrs) :
           /\ hdrs[i] >= 8
           /\ SubSeq(stream, hdrs[i] + 1, hdrs[i] + 8) # fxtMagic

\* two calls have appended records after the magic number
C17_RecordsAfterMagic ==
    /\ nops >= 2
    /\ Len(hdrs) >= 3
    /\ Len(stream) > 8 + 24

----------------------------------------------------------------------------
(* Scheduling records. *)

\* C14: AddContextSwitchRecordWithArgs with outgoingThreadState above 15
\* returns an error, appends no byte and leaves the string table, the thread
\* table and both counters as they were, whatever the arguments.
C14_InvalidStateTouchesNothing ==
    [][(call'.op = "AddContextSwitchRecordWithArgs" /\ call'.outgoingThreadState > 15) =>
           /\ ret'.err # ""
           /\ stream' = stream
           /\ stringTable' = stringTable
           /\ threadTable' = threadTable
           /\ nextStringIndex' = nextStringIndex
           /\ nextThreadIndex' = nextThreadIndex]_vars

\* a context switch with state 16 and two arguments, one of them a string,
\* was refused on a Writer that had interned nothing
C14_InvalidStateWithArguments ==
    /\ call.op = "AddContextSwitchRecordWithArgs"
    /\ call.outgoingThreadState = 16
    /\ call.arguments = TwoArguments
    /\ ret.err = "invalid outgoingThreadState"
    /\ stringTable = EmptyMap
    /\ nextStringIndex = 1
    /\ stream = fxtMagic

----------------------------------------------------------------------------
(* Naming a thread, then an event on it. *)

\* SetThreadName(3, 45, "Main") returned nil earlier and the last call is an
\* event on thread (3, 45) that returned nil
EventAfterSetThreadName ==
    /\ \E i \in 1..(Len(log) - 1) :
           /\ log[i].call = [op |-> "SetThreadName", processId |-> 3, threadId |-> 45, name |-> strMain]
           /\ log[i].err = ""
    /\ call.op \in {"AddInstantEventWithArgs", "AddCounterEvent"}
    /\ call.processId = 3 /\ call.threadId = 45
    /\ ret.err = ""

\* C12: after SetThreadName(3, 45, "Main") and then an event on thread
\* (3, 45), the stream holds exactly one String Record for "Main", exactly one
\* for each argument name used and exactly one Thread Record for (3, 45), all
\* of them before the event record, whose header carries in its thread field
\* the index of the thread table and not a process or thread id.
C12_NamedThreadThenEvent ==
    EventAfterSetThreadName =>
        LET event == hdrs[Len(hdrs)]
            defs == StringRecordsOf(strMain) \cup ThreadRecordsOf(3, 45)
                    \cup UNION {StringRecordsOf(key) : key \in DOMAIN call.arguments}
        IN  /\ RecordTypeAt(event) = recordTypeEvent
            /\ Cardinality(StringRecordsOf(strMain)) = 1
            /\ \A key \in DOMAIN call.arguments : Cardinality(StringRecordsOf(key)) = 1
            /\ Cardinality(ThreadRecordsOf(3, 45)) = 1
            /\ \A h \in defs : h < event
            /\ <<3, 45>> \in DOMAIN threadTable
            /\ EventThreadAt(event) = threadTable[<<3, 45>>]
            /\ \A h \in ThreadRecordsOf(3, 45) : ThreadRecordIndexAt(h) = EventThreadAt(event)
            /\ EventThreadAt(event) \notin {3, 45}

\* the event after SetThreadName(3, 45, "Main") carried two arguments
C12_NamedThreadEventWithArguments ==
    /\ EventAfterSetThreadName
    /\ call.arguments = TwoArguments

----------------------------------------------------------------------------
(* The two passes over the arguments. *)

\* the offsets of the String Records that define index k
StringRecordsWithIndex(k) ==
    {h \in {hdrs[i] : i \in 1..Len(hdrs)} :
        RecordTypeAt(h) = recordTypeString /\ StringRecordIndexAt(h) = k}

\* the name index of an argument record: bits [16:32) of its header
ArgumentNameAt(at) == Field(stream, at, 16, 16)

\* the size in words of an argument record: bits [4:16) of its header
ArgumentSizeAt(at) == Field(stream, at, 4, 12)

\* the last call is an event with two arguments that returned nil, and it is
\* the call that wrote the String Records of both argument names
TwoArgumentEvent ==
    /\ call.op \in {"AddInstantEventWithArgs", "AddCounterEvent"}
    /\ ret.err = ""
    /\ Cardinality(DOMAIN call.arguments) = 2
    /\ \A key \in DOMAIN call.arguments : \A h \in StringRecordsOf(key) : h >= mark

\* C18: within one call with two arguments or more, the pass that sums the
\* sizes and the pass that writes the arguments visit them in the same order,
\* so the String Records of the argument names are in the order of the
\* argument records of the event.  Go fixes no order for either range loop.
C18_SameOrderInBothPasses ==
    TwoArgumentEvent =>
        LET event == hdrs[Len(hdrs)]
            first1 == event + 16
            second == first1 + 8 * ArgumentSizeAt(first1)
        IN  /\ call.order1 = call.order2
            /\ \A h1 \in StringRecordsWithIndex(ArgumentNameAt(first1)) :
               \A h2 \in StringRecordsWithIndex(ArgumentNameAt(second)) : h1 < h2

----------------------------------------------------------------------------
(* The strings of the arguments. *)

\* the last call took arguments and went as far as writing its record header,
\* after which writeArgument is called for each argument
ReachedWriteArgument ==
    /\ call.op \in ArgumentOps
    /\ \E i \in 1..Len(hdrs) : hdrs[i] >= mark /\ ~IsDefinitionAt(hdrs[i])

\* C20: in every operation that takes arguments, each argument name and each
\* string value is in the string table before writeArgument is called, so no
\* such operation returns "does not exist in the string table".
C20_ArgumentStringsInterned ==
    /\ call.op \in ArgumentOps => ret.err # "does not exist in the string table"
    /\ ReachedWriteArgument =>
           \A key \in DOMAIN call.arguments :
               /\ key \in DOMAIN stringTable
               /\ call.arguments[key].t = "string" =>
                      call.arguments[key].s \in DOMAIN stringTable

\* a thread wakeup with two arguments, one of them a string that nothing else
\* of the call interns, was written
C20_StringArgumentWritten ==
    /\ ReachedWriteArgument
    /\ call.op = "AddThreadWakeupRecordWithArgs"
    /\ call.arguments = TwoArguments
    /\ ret.err = ""
    /\ nops = 1

----------------------------------------------------------------------------
(* The thread table and the stream. *)

\* C19: for every (processId, threadId), the first event that uses the pair
\* appends exactly one Thread Record of 3 words (the header with the new
\* index, the process id, the thread id); every later event that uses it
\* appends no Thread Record and carries the same index in its header; pairs
\* that differ have indices that differ.  The thread field of an event header
\* is 8 bits wide and the index is a uint16: from the 256th pair on the index
\* does not fit.
C19_ThreadRecordOncePerThread ==
    [][(call'.op = "AddInstantEvent" /\ ret'.err = "" /\ nops' = nops + 1) =>
          LET thread == <<call'.processId, call'.threadId>>
              new == {hdrs'[i] : i \in (Len(hdrs) + 1)..Len(hdrs')}
              newThreads == {h \in new : Field(stream', h, 0, 4) = recordTypeThread}
              event == hdrs'[Len(hdrs')]
          IN  /\ thread \in DOMAIN threadTable'
              /\ IF thread \notin DOMAIN threadTable
                 THEN /\ Cardinality(newThreads) = 1
                      /\ \A h \in newThreads :
                             /\ Field(stream', h, 4, 12) = 3
                             /\ Field(stream', h, 16, 8) = threadTable'[thread]
                             /\ Field(stream', h + 8, 0, 24) = call'.processId
                             /\ Field(stream', h + 16, 0, 24) = call'.threadId
                 ELSE /\ newThreads = {}
                      /\ threadTable'[thread] = threadTable[thread]
              /\ Field(stream', event, 0, 4) = recordTypeEvent
              /\ Field(stream', event, 24, 8) = threadTable'[thread]
              /\ Cardinality({threadTable'[t] : t \in DOMAIN threadTable'})
                     = Cardinality(DOMAIN threadTable')]_vars

----------------------------------------------------------------------------
(* The counters. *)

\* C13: in every reachable state, however many distinct strings and threads
\* have been interned (the 16-bit counters go up modulo 2^16), no entry of
\* the string table and no entry of the thread table has index 0.  A uint16
\* that starts at 1 is 0 after 65535 increments.
C13_NoIndexZero ==
    /\ \A s \in DOMAIN stringTable : stringTable[s] # 0
    /\ \A thread \in DOMAIN threadTable : threadTable[thread] # 0

----------------------------------------------------------------------------
(* The layout of an event record. *)

\* the calls that add an event record with arguments
EventOps ==
    {"AddInstantEventWithArgs", "AddCounterEvent", "AddDurationBeginEventWithArgs",
     "AddDurationEndEventWithArgs", "AddDurationCompleteEventWithArgs",
     "AddAsyncBeginEventWithArgs", "AddAsyncInstantEventWithArgs",
     "AddAsyncEndEventWithArgs", "AddFlowBeginEventWithArgs",
     "AddFlowStepEventWithArgs", "AddFlowEndEventWithArgs"}

\* those that write one more word after the arguments
TrailerOps ==
    EventOps \ {"AddInstantEventWithArgs", "AddDurationBeginEventWithArgs",
                "AddDurationEndEventWithArgs"}

\* the event type the call `op` passes to writeEventHeaderAndGenericData
EventTypeOf(op) ==
    CASE op = "AddInstantEventWithArgs" -> eventTypeInstant
      [] op = "AddCounterEvent" -> eventTypeCounter
      [] op = "AddDurationBeginEventWithArgs" -> eventTypeDurationBegin
      [] op = "AddDurationEndEventWithArgs" -> eventTypeDurationEnd
      [] op = "AddDurationCompleteEventWithArgs" -> eventTypeDurationComplete
      [] op = "AddAsyncBeginEventWithArgs" -> eventTypeAsyncBegin
      [] op = "AddAsyncInstantEventWithArgs" -> eventTypeAsyncInstant
      [] op = "AddAsyncEndEventWithArgs" -> eventTypeAsyncEnd
      [] op = "AddFlowBeginEventWithArgs" -> eventTypeFlowBegin
      [] op = "AddFlowStepEventWithArgs" -> eventTypeFlowStep
      [] op = "AddFlowEndEventWithArgs" -> eventTypeFlowEnd

\* the parameter the call c writes after the arguments
TrailerOf(c) ==
    CASE c.op = "AddCounterEvent" -> c.counterId
      [] c.op = "AddDurationCompleteEventWithArgs" -> c.endTimestamp
      [] c.op \in {"AddAsyncBeginEventWithArgs", "AddAsyncInstantEventWithArgs",
                   "AddAsyncEndEventWithArgs"} -> c.asyncCorrelationId
      [] OTHER -> c.flowCorrelationId

\* the parameter the call c writes as the timestamp word
TimestampOf(c) ==
    IF c.op = "AddDurationCompleteEventWithArgs" THEN c.beginTimestamp ELSE c.timestamp

RECURSIVE ArgumentOffsets(_, _)
\* the offsets of n argument records that start at `at`, each as long as its
\* header declares
ArgumentOffsets(at, n) ==
    IF n = 0 THEN <<>>
    ELSE <<at>> \o ArgumentOffsets(at + 8 * ArgumentSizeAt(at), n - 1)

\* C21: an event that returned nil wrote its record as the header word, the
\* timestamp word, all its argument records and then, for counter,
\* duration-complete, async and flow events, exactly one trailing word (the
\* counter id, the end timestamp, the correlation id), with a declared size of
\* 2 + argument words + 1; instant, duration-begin and duration-end events
\* have no trailing word and a declared size of 2 + argument words.
C21_EventLayout ==
    (call.op \in EventOps /\ ret.err = "") =>
        LET event == hdrs[Len(hdrs)]
            numArgs == Cardinality(DOMAIN call.arguments)
            words == SumOfSizes(call.arguments, DOMAIN call.arguments)
            extra == IF call.op \in TrailerOps THEN 1 ELSE 0
            end == event + 16 + 8 * words
            args == ArgumentOffsets(event + 16, numArgs)
        IN  /\ event >= mark
            /\ RecordTypeAt(event) = recordTypeEvent
            /\ Field(stream, event, 16, 4) = EventTypeOf(call.op)
            /\ SizeInWordsAt(event) = 2 + words + extra
            /\ Len(stream) = end + 8 * extra
            /\ Field(stream, event + 8, 0, 32) = TimestampOf(call)
            /\ Field(stream, event + 8, 32, 32) = 0
            /\ {ArgumentNameAt(args[i]) : i \in 1..numArgs}
                   = {stringTable[key] : key \in DOMAIN call.arguments}
            /\ numArgs > 0 =>
                   args[numArgs] + 8 * ArgumentSizeAt(args[numArgs]) = end
            /\ extra = 1 =>
                   /\ Field(stream, end, 0, 32) = TrailerOf(call)
                   /\ Field(stream, end, 32, 32) = 0

\* a duration-complete event with two arguments, whose strings and thread an
\* earlier call had interned, wrote the 6 words of its record and nothing else
C21_CompleteEventWithArguments ==
    /\ call.op = "AddDurationCompleteEventWithArgs"
    /\ call.arguments = TwoArguments
    /\ ret.err = ""
    /\ nops = 2
    /\ Len(stream) = mark + 8 * (2 + 3 + 1)

----------------------------------------------------------------------------
(* Writes that fail. *)

\* C22: when a write to the file fails inside a record-adding operation, the
\* operation issues no further write and returns an error, and the bytes
\* written before the failure stay in the stream: the stream is what it was
\* before the call, followed by the first bytes of what the call writes when
\* no write fails, and nothing is truncated or rewritten.
C22_FailedWriteEndsTheCall ==
    [][(call'.op \in RecordOps /\ nops' = nops + 1 /\ "wleft" \in DOMAIN call'
           /\ call'.wleft >= 0 /\ ret'.attempts > call'.wleft) =>
          \E full \in {WithoutFailure(call').stream} :
              /\ ret'.attempts = call'.wleft + 1
              /\ ret'.err # ""
              /\ Len(stream') >= Len(stream)
              /\ SubSeq(stream', 1, Len(stream)) = stream
              /\ Len(stream') <= Len(full)
              /\ stream' = SubSeq(full, 1, Len(stream'))
              /\ Len(stream') - Len(stream) >= call'.wleft]_vars

\* the first event on a Writer wrote its strings, its thread and its header,
\* and the write of the timestamp failed
C22_TimestampWriteFailed ==
    /\ call.op = "AddInstantEventWithArgs"
    /\ nops = 1
    /\ "wleft" \in DOMAIN call
    /\ call.wleft = 13
    /\ ret.attempts = 14
    /\ ret.err # ""
    /\ Len(stream) = 8 + 16 + 16 + 24 + 16 + 8
    /\ RecordTypeAt(hdrs[Len(hdrs)]) = recordTypeEvent

----------------------------------------------------------------------------
(* The records that intern nothing. *)

\* the calls that add a metadata or an initialization record
MetadataOps ==
    {"AddProviderInfoRecord", "AddProviderSectionRecord", "AddProviderEventRecord",
     "AddInitializationRecord"}

\* C23: AddProviderInfoRecord, AddProviderSectionRecord, AddProviderEventRecord
\* and AddInitializationRecord, whether they return nil or an error, leave the
\* string table, the thread table, nextStringIndex and nextThreadIndex as they
\* were and append no String Record and no Thread Record.
C23_MetadataInternsNothing ==
    [][(call'.op \in MetadataOps /\ nops' = nops + 1) =>
          /\ stringTable' = stringTable
          /\ threadTable' = threadTable
          /\ nextStringIndex' = nextStringIndex
          /\ nextThreadIndex' = nextThreadIndex
          /\ SubSeq(hdrs', 1, Len(hdrs)) = hdrs
          /\ \A i \in (Len(hdrs) + 1)..Len(hdrs') :
                 Field(stream', hdrs'[i], 0, 4) \in {recordTypeMetadata, recordTypeInitialization}
          /\ first' = first
          /\ later' = later]_vars

\* AddProviderInfoRecord wrote its header and failed at the name, on a Writer
\* whose tables held strings and a thread
C23_ProviderInfoFailedOnUsedWriter ==
    /\ call.op = "AddProviderInfoRecord"
    /\ "wleft" \in DOMAIN call
    /\ call.wleft = 1
    /\ ret.err # ""
    /\ Len(stream) = mark + 8
    /\ DOMAIN stringTable # {}
    /\ DOMAIN threadTable # {}

----------------------------------------------------------------------------
(* Padding. *)

\* C24: for every length n from 0 to 255 of a string or a provider name, and
\* for every length n of a blob, the padded length (n + 7) & -8 is the
\* smallest multiple of 8 that is at least n, the number of zero bytes written
\* after the n bytes is padded - n, between 0 and 7, and no padding write is
\* issued when n is a multiple of 8.
C24_PaddedToWholeWords ==
    (call.op \in {"AddProviderInfoRecord", "getOrCreateStringIndex", "AddBlobRecord"}
         /\ "n" \in DOMAIN call /\ ret.err = "") =>
        LET n == call.n
            start == hdrs[Len(hdrs)] + 8
            padded == Len(stream) - start
            \* the writes of the String Record of the blob's name come first
            earlier == IF call.op = "AddBlobRecord" THEN 3 ELSE 0
        IN  /\ padded % 8 = 0
            /\ padded >= n
            /\ \A m \in n..(padded - 1) : m % 8 # 0
            /\ padded - n \in 0..7
            /\ SubSeq(stream, start + 1, start + n) = Bytes(n)
            /\ \A i \in (start + n + 1)..(start + padded) : stream[i] = 0
            /\ ret.attempts = earlier + 2 + (IF n % 8 = 0 THEN 0 ELSE 1)

\* a string of 248 bytes, a whole number of words, was written with two
\* writes: its header and its bytes
C24_WholeWordsNoPaddingWrite ==
    /\ call.op = "getOrCreateStringIndex"
    /\ "n" \in DOMAIN call
    /\ call.n = 248
    /\ ret.err = ""
    /\ ret.attempts = 2
    /\ Len(stream) = 8 + 8 + 248

----------------------------------------------------------------------------
(* Whole words. *)

\* C25: after every record-adding operation that returns without error, the
\* number of bytes of the stream is a multiple of 8 and the stream is the
\* magic word followed by complete records, each a whole number of words: the
\* first record starts after the magic word and each record ends, as many
\* words after its header as the header declares, where the next one starts
\* or where the stream ends.  The Writer does not keep this once a write has
\* failed: the bytes of the record it was writing stay, and the calls that
\* follow append after them.
C25_WholeRecordsAfterSuccess ==
    (call.op \in RecordOps /\ ret.err = "") =>
        /\ Len(stream) % 8 = 0
        /\ SubSeq(stream, 1, 8) = fxtMagic
        /\ Len(hdrs) >= 1
        /\ hdrs[1] = 8
        /\ \A i \in 1..Len(hdrs) :
               /\ SizeInWordsAt(hdrs[i]) >= 1
               /\ hdrs[i] + 8 * SizeInWordsAt(hdrs[i])
                      = (IF i < Len(hdrs) THEN hdrs[i + 1] ELSE Len(stream))

----------------------------------------------------------------------------
(* Two entries, one index. *)

\* C26: in every reachable state the string table is injective and so is the
\* thread table, for any number of entries: two strings never hold the same
\* string index, two (processId, threadId) pairs never hold the same thread
\* index.  The counters are uint16 and go round: the 65537th string is given
\* the index of the first.
C26_TablesInjective ==
    /\ Cardinality({stringTable[str] : str \in DOMAIN stringTable})
           = Cardinality(DOMAIN stringTable)
    /\ Cardinality({threadTable[thread] : thread \in DOMAIN threadTable})
           = Cardinality(DOMAIN threadTable)

----------------------------------------------------------------------------
(* The fields of an event header. *)

\* C27: in every event record written, the thread field (8 bits from bit 24),
\* the category field (16 bits from bit 32) and the name field (16 bits from
\* bit 48) of the header each decode to the index the thread table or the
\* string table holds for the thread, the category and the name of the event,
\* for every thread index the counter can issue.  The counter issues indices
\* up to 65535 and the header is built with threadIndex << 24: an index of
\* 256 or more does not fit the 8 bits and its upper bits fall in the
\* category field.
C27_HeaderFieldsHoldTheIndices ==
    (call.op = "AddInstantEvent" /\ ret.err = "") =>
        LET event == hdrs[Len(hdrs)] IN
        /\ RecordTypeAt(event) = recordTypeEvent
        /\ EventThreadAt(event) = threadTable[<<call.processId, call.threadId>>]
        /\ Field(stream, event, 32, 16) = stringTable[call.category]
        /\ Field(stream, event, 48, 16) = stringTable[call.name]

----------------------------------------------------------------------------
(* The number of arguments in a header. *)

\* the bit the 4 bits of numArgs start at in the header of the record the
\* call `op` adds
NumArgsBit(op) ==
    CASE op = "AddUserspaceObjectRecord" -> 40
      [] op \in {"AddContextSwitchRecordWithArgs", "AddThreadWakeupRecordWithArgs"} -> 16
      [] OTHER -> 20

\* the number of words of the record of the call `op` before its arguments
FixedWords(op) ==
    CASE op = "AddUserspaceObjectRecord" -> 3
      [] op = "AddContextSwitchRecordWithArgs" -> 4
      [] op = "AddThreadWakeupRecordWithArgs" -> 3
      [] OTHER -> 2

\* C28: for every event, userspace-object, context-switch and thread-wakeup
\* record written with a map of arguments of any size, the 4 bits of numArgs
\* in the header decode to the number of argument records that follow in the
\* record, and the field next to them is what it is without arguments: the
\* thread index of an event, the reserved bits of a userspace-object record,
\* the cpu number of a scheduling record.  The operations put len(arguments)
\* in the header unchecked: 16 arguments decode as 0 and set the lowest bit
\* of the next field.
C28_NumArgsCountsTheArguments ==
    (call.op \in ArgumentOps \ {"AddCounterEvent"} /\ ret.err = "") =>
        LET record == hdrs[Len(hdrs)]
            numArgs == Field(stream, record, NumArgsBit(call.op), 4)
            args == ArgumentOffsets(record + 8 * FixedWords(call.op), numArgs)
            end == IF numArgs = 0 THEN record + 8 * FixedWords(call.op)
                   ELSE args[numArgs] + 8 * ArgumentSizeAt(args[numArgs])
        IN  /\ numArgs = Cardinality(DOMAIN call.arguments)
            /\ end = Len(stream)
            /\ call.op = "AddInstantEventWithArgs" =>
                   EventThreadAt(record) = threadTable[<<call.processId, call.threadId>>]
            /\ call.op = "AddUserspaceObjectRecord" => Field(stream, record, 44, 20) = 0
            /\ call.op \in {"AddContextSwitchRecordWithArgs", "AddThreadWakeupRecordWithArgs"} =>
                   Field(stream, record, 20, 16) = call.cpuNumber

----------------------------------------------------------------------------
(* A value of a kind the writer does not take. *)

RECURSIVE WholeRecordsFrom(_)
\* read from offset `at`, the stream is complete records up to its end: each
\* header declares at least one word and the next header follows its record
WholeRecordsFrom(at) ==
    IF at = Len(stream) THEN TRUE
    ELSE /\ at + 8 <= Len(stream)
         /\ SizeInWordsAt(at) >= 1
         /\ at + 8 * SizeInWordsAt(at) <= Len(stream)
         /\ WholeRecordsFrom(at + 8 * SizeInWordsAt(at))

RECURSIVE DefinitionsFrom(_)
\* read from offset `at`, the stream is complete String Records and Thread
\* Records up to its end
DefinitionsFrom(at) ==
    IF at = Len(stream) THEN TRUE
    ELSE /\ at + 8 <= Len(stream)
         /\ IsDefinitionAt(at)
         /\ SizeInWordsAt(at) >= 1
         /\ at + 8 * SizeInWordsAt(at) <= Len(stream)
         /\ DefinitionsFrom(at + 8 * SizeInWordsAt(at))

\* the kinds of value the claim calls supported: nil and the nine types the
\* writer encodes
SupportedKinds ==
    {"nil", "int32", "uint32", "int64", "uint64", "float64", "string",
     "uintptr", "KernelObjectID", "bool"}

\* some value of the map is of an unsupported kind
HasUnsupportedKind(arguments) ==
    \E key \in DOMAIN arguments : arguments[key].t \notin SupportedKinds

\* C29: a record-adding operation given an argument value of a kind the
\* writer does not take returns an error before it writes the header word of
\* its record: what it appended is complete String Records and Thread Records
\* and nothing else, and the stream is the magic word followed by whole
\* records.
C29_UnsupportedKindBeforeHeader ==
    (call.op \in ArgumentOps /\ HasUnsupportedKind(call.arguments)) =>
        /\ ret.err = "invalid value type for argument"
        /\ DefinitionsFrom(mark)
        /\ \A h \in {hdrs[i] : i \in 1..Len(hdrs)} : h >= mark => IsDefinitionAt(h)
        /\ SubSeq(stream, 1, 8) = fxtMagic
        /\ WholeRecordsFrom(8)

\* the second call was given {"j": "a", "k": float32}, visited "j" first, and
\* appended the String Records of "j" and "a" before it returned the error
C29_StringsInternedThenError ==
    /\ nops = 2
    /\ call.op \in ArgumentOps
    /\ DOMAIN call.arguments = {argJ, argK}
    /\ HasUnsupportedKind(call.arguments)
    /\ call.order1[1] = argJ
    /\ ret.err # ""
    /\ Len(stream) >= mark + 32
    /\ log[1].err = ""

----------------------------------------------------------------------------
(* The same calls, the same file. *)

\* what the call c leaves on the Writer as it stands when its two loops visit
\* the arguments in the orders order1 and order2
WithOrders(c, order1, order2) ==
    CASE c.op = "AddInstantEventWithArgs" ->
             AddInstantEventWithArgs(Start(-1), c.category, c.name, c.processId,
                 c.threadId, c.timestamp, c.arguments, order1, order2)
      [] c.op = "AddCounterEvent" ->
             AddCounterEvent(Start(-1), c.category, c.name, c.processId,
                 c.threadId, c.timestamp, c.arguments, order1, order2, c.counterId)
      [] c.op = "AddUserspaceObjectRecord" ->
             AddUserspaceObjectRecord(Start(-1), c.name, c.processId,
                 c.pointerValue, c.arguments, order1, order2)
      [] c.op = "AddContextSwitchRecordWithArgs" ->
             AddContextSwitchRecordWithArgs(Start(-1), c.cpuNumber,
                 c.outgoingThreadState, c.outgoingThreadId, c.incomingThreadId,
                 c.timestamp, c.arguments, order1, order2)
      [] c.op = "AddThreadWakeupRecordWithArgs" ->
             AddThreadWakeupRecordWithArgs(Start(-1), c.cpuNumber,
                 c.wakingThreadId, c.timestamp, c.arguments, order1, order2)

\* C30: the output is a function of the calls and their parameters: a call
\* made with the same parameters on a Writer in the same state leaves the same
\* stream, the same string table and thread table and the same counters,
\* whatever the order in which its loops visit the argument map, so two new
\* Writers given the same calls end with the same bytes and the same tables.
\* The order of the two range loops over a map of two entries is not a
\* parameter of the call, and the String Records, the indices and the
\* argument records follow it.
C30_SameCallsSameOutput ==
    [][call'.op \in ArgumentOps =>
           \A order1 \in Orders(call'.arguments), order2 \in Orders(call'.arguments) :
               \E w \in {WithOrders(call', order1, order2)} :
                   /\ w.stream = stream'
                   /\ w.stringTable = stringTable'
                   /\ w.nextStringIndex = nextStringIndex'
                   /\ w.threadTable = threadTable'
                   /\ w.nextThreadIndex = nextThreadIndex'
                   /\ w.err = ret'.err]_vars

====
